---- MODULE Spec2Model ----
(***************************************************************************)
(* E-Cycle: bulk intake (routes.bulk_pickup), individual scheduling        *)
(* (routes.schedule), the valuation tables and the carbon savings table    *)
(* (utils.calculate_carbon_footprint), over a relational store with        *)
(* per-request SQLAlchemy sessions.                                        *)
(***************************************************************************)
EXTENDS Integers, Sequences, FiniteSets, TLC

(***************************************************************************)
(* Text.  A Python str is a sequence of one-character strings, so that     *)
(* str.isdigit, int(str), str.upper and the `in` substring test are        *)
(* computed, not assumed.                                                  *)
(***************************************************************************)
DecimalChars == {"0", "1", "2", "3", "4", "5", "6", "7", "8", "9"}

\* str.isdigit also accepts digits that int() rejects, e.g. SUPERSCRIPT TWO.
IsDigitChars == DecimalChars \cup {"^2"}

DigitValue(c) ==
    CASE c = "0" -> 0 [] c = "1" -> 1 [] c = "2" -> 2 [] c = "3" -> 3
      [] c = "4" -> 4 [] c = "5" -> 5 [] c = "6" -> 6 [] c = "7" -> 7
      [] c = "8" -> 8 [] c = "9" -> 9

\* str.isdigit(): non-empty and every character is a digit character.
isdigit(s) == Len(s) > 0 /\ \A i \in 1..Len(s) : s[i] \in IsDigitChars

RECURSIVE DecimalValue(_)
DecimalValue(s) ==
    IF s = <<>> THEN 0
    ELSE DecimalValue(SubSeq(s, 1, Len(s) - 1)) * 10 + DigitValue(s[Len(s)])

RECURSIVE lstrip(_)
lstrip(s) == IF s # <<>> /\ Head(s) = " " THEN lstrip(Tail(s)) ELSE s

RECURSIVE rstrip(_)
rstrip(s) ==
    IF s # <<>> /\ s[Len(s)] = " " THEN rstrip(SubSeq(s, 1, Len(s) - 1)) ELSE s

\* str.strip()
strip(s) == rstrip(lstrip(s))

\* int(str): surrounding blanks, an optional sign, then decimal digits;
\* anything else raises ValueError (ok = FALSE).
int_of_str(s) ==
    LET t == strip(s)
        signed == t # <<>> /\ Head(t) \in {"-", "+"}
        digits == IF signed THEN Tail(t) ELSE t
        good == digits # <<>> /\ \A i \in 1..Len(digits) : digits[i] \in DecimalChars
    IN  IF ~good THEN [ok |-> FALSE, val |-> 0]
        ELSE [ok |-> TRUE,
              val |-> IF signed /\ Head(t) = "-" THEN 0 - DecimalValue(digits)
                      ELSE DecimalValue(digits)]

LowerAlphabet ==
    <<"a", "b", "c", "d", "e", "f", "g", "h", "i", "j", "k", "l", "m",
      "n", "o", "p", "q", "r", "s", "t", "u", "v", "w", "x", "y", "z">>

UpperAlphabet ==
    <<"A", "B", "C", "D", "E", "F", "G", "H", "I", "J", "K", "L", "M",
      "N", "O", "P", "Q", "R", "S", "T", "U", "V", "W", "X", "Y", "Z">>

UpperChar(c) ==
    IF \E i \in 1..26 : LowerAlphabet[i] = c
    THEN UpperAlphabet[CHOOSE i \in 1..26 : LowerAlphabet[i] = c]
    ELSE c

\* str.upper()
upper(s) == [i \in 1..Len(s) |-> UpperChar(s[i])]

\* sub in s
contains(s, sub) ==
    \E i \in 0..(Len(s) - Len(sub)) : SubSeq(s, i + 1, i + Len(sub)) = sub

WORK == <<"W", "O", "R", "K">>
DAMAGE == <<"D", "A", "M", "A", "G", "E">>
WORKING == <<"W", "O", "R", "K", "I", "N", "G">>
DAMAGED == <<"D", "A", "M", "A", "G", "E", "D">>
SCRAP == <<"S", "C", "R", "A", "P">>

(***************************************************************************)
(* Floating point.  A Python float is an IEEE-754 double, written here as  *)
(* a 53-bit mantissa in four 16-bit limbs (least significant first) and a  *)
(* binary exponent: value = mant * 2^(-exp).                               *)
(***************************************************************************)
Double_1_5 == [mant |-> <<0, 0, 0, 24>>, exp |-> 52]              \* 0x1.8p+0
Double_1_2 == [mant |-> <<13107, 13107, 13107, 19>>, exp |-> 52]  \* 0x1.3333333333333p+0
Double_1_0 == [mant |-> <<0, 0, 0, 16>>, exp |-> 52]              \* 0x1.0p+0
Double_0_8 == [mant |-> <<39322, 39321, 39321, 25>>, exp |-> 53]  \* 0x1.999999999999ap-1
Double_0_5 == [mant |-> <<0, 0, 0, 16>>, exp |-> 53]              \* 0x1.0p-1

RECURSIVE MulLimbs(_, _, _)
MulLimbs(ls, b, carry) ==
    IF ls = <<>> THEN <<carry>>
    ELSE LET t == Head(ls) * b + carry
         IN  <<t % (2 ^ 16)>> \o MulLimbs(Tail(ls), b, t \div (2 ^ 16))

\* bit i (1 = least significant) of a limb sequence
BitAt(ls, i) == (ls[((i - 1) \div 16) + 1] \div (2 ^ ((i - 1) % 16))) % 2

BitLen(ls) ==
    LET set == {i \in 1..(16 * Len(ls)) : BitAt(ls, i) = 1}
    IN  IF set = {} THEN 0 ELSE CHOOSE i \in set : \A j \in set : j <= i

RECURSIVE BitsValue(_, _, _)
\* the integer written by bits lo..hi
BitsValue(ls, lo, hi) ==
    IF hi < lo THEN 0 ELSE BitsValue(ls, lo + 1, hi) * 2 + BitAt(ls, lo)

\* (a multiplication that drops the bits beyond the 53rd instead of rounding)
IntOfFloatMulTrunc(b, d) ==
    LET p == MulLimbs(d.mant, b, 0)
        n == BitLen(p)
    IN  BitsValue(p, d.exp + 1, n)

\* int(b * d) for a small non-negative int b and a double d: the exact
\* product is rounded to 53 significant bits, ties to even (the float
\* multiplication), and int() then drops the fraction.
IntOfFloatMul(b, d) ==
    LET p == MulLimbs(d.mant, b, 0)
        n == BitLen(p)
        s == IF n > 53 THEN n - 53 ELSE 0
        q == BitsValue(p, d.exp + 1, n)
        above == s > 0 /\ BitAt(p, s) = 1 /\ \E i \in 1..(s - 1) : BitAt(p, i) = 1
        tie == s > 0 /\ BitAt(p, s) = 1 /\ \A i \in 1..(s - 1) : BitAt(p, i) = 0
        roundUp == above \/ (tie /\ BitAt(p, s + 1) = 1)
        carryOut == roundUp /\ \A i \in (s + 1)..d.exp : BitAt(p, i) = 1
    IN  IF carryOut THEN q + 1 ELSE q

(***************************************************************************)
(* Valuation: the price maps and condition multipliers of the two intake   *)
(* paths, the eco-points conversion and the carbon savings table.          *)
(***************************************************************************)
\* dict.get(key, default)
Get(table, key, default) == IF key \in DOMAIN table THEN table[key] ELSE default

\* price_map of bulk_pickup
bulk_price_map ==
       "Desktop-PC" :> 150
    @@ "Laptop" :> 120
    @@ "Server" :> 200
    @@ "Smartphone" :> 70
    @@ "Tablet" :> 80
    @@ "Flat-Panel-TV" :> 90
    @@ "Refrigerator" :> 70
    @@ "Washing-Machine" :> 70
    @@ "Microwave" :> 50
    @@ "Other" :> 30

\* condition_multiplier of bulk_pickup, with .get(condition, 1.0)
bulk_condition_multiplier(condition) ==
    CASE condition = WORKING -> Double_1_2
      [] condition = DAMAGED -> Double_0_8
      [] condition = SCRAP -> Double_0_5
      [] OTHER -> Double_1_0

\* price_map of schedule
schedule_price_map ==
       "Desktop-PC" :> 150
    @@ "Laptop" :> 120
    @@ "Server" :> 200
    @@ "PlayStation-5" :> 100
    @@ "Xbox-Series-X" :> 100
    @@ "Smartphone" :> 70
    @@ "Tablet" :> 80
    @@ "Flat-Panel-TV" :> 90
    @@ "Flat-Panel-Monitor" :> 70
    @@ "Digital-Oscilloscope" :> 150
    @@ "Printer" :> 60
    @@ "Air-Conditioner" :> 80
    @@ "Refrigerator" :> 70
    @@ "Washing-Machine" :> 70
    @@ "Dishwasher" :> 70
    @@ "CRT-Monitor" :> 50
    @@ "CRT-TV" :> 40
    @@ "Microwave" :> 50
    @@ "Coffee-Machine" :> 40
    @@ "Projector" :> 60
    @@ "Router" :> 40
    @@ "Network-Switch" :> 45
    @@ "Oven" :> 50
    @@ "Boiler" :> 40
    @@ "PCB" :> 30
    @@ "Electric-Guitar" :> 50
    @@ "Electronic-Keyboard" :> 55
    @@ "Drone" :> 60
    @@ "Electric-Bicycle" :> 90
    @@ "Cooled-Dispenser" :> 45
    @@ "Battery" :> 20
    @@ "Headphone" :> 25
    @@ "Computer-Keyboard" :> 20
    @@ "Computer-Mouse" :> 15
    @@ "Smart-Watch" :> 35
    @@ "Camera" :> 40
    @@ "Soldering-Iron" :> 25
    @@ "Bar-Phone" :> 20
    @@ "Hair-Dryer" :> 20
    @@ "Calculator" :> 15
    @@ "LED-Bulb" :> 10
    @@ "Flashlight" :> 15
    @@ "USB-Flash-Drive" :> 15
    @@ "HDD" :> 25
    @@ "SSD" :> 30
    @@ "Vacuum-Cleaner" :> 35
    @@ "Speaker" :> 30
    @@ "Toaster" :> 25
    @@ "Other" :> 30

\* condition_multiplier of schedule, with .get(condition, 1.0)
schedule_condition_multiplier(condition) ==
    CASE condition = "Excellent" -> Double_1_5
      [] condition = "Good" -> Double_1_2
      [] condition = "Fair" -> Double_1_0
      [] condition = "Poor" -> Double_0_8
      [] OTHER -> Double_1_0

\* the choices ScheduleForm accepts for ewaste_type and condition
ScheduleForm_ewaste_type_choices ==
    {"Air-Conditioner", "Bar-Phone", "Battery",
     "Blood-Pressure-Monitor", "Boiler", "CRT-Monitor", "CRT-TV",
     "Calculator", "Camera", "Ceiling-Fan", "Christmas-Lights",
     "Clothes-Iron", "Coffee-Machine", "Compact-Fluorescent-Lamps",
     "Computer-Keyboard", "Computer-Mouse", "Cooled-Dispenser",
     "Cooling-Display", "Dehumidifier", "Desktop-PC",
     "Digital-Oscilloscope", "Dishwasher", "Drone",
     "Electric-Bicycle", "Electric-Guitar",
     "Electrocardiograph-Machine", "Electronic-Keyboard",
     "Exhaust-Fan", "Flashlight", "Flat-Panel-Monitor",
     "Flat-Panel-TV", "Floor-Fan", "Freezer", "Glucose-Meter", "HDD",
     "Hair-Dryer", "Headphone", "LED-Bulb", "Laptop", "Microwave",
     "Music-Player", "Neon-Sign", "Network-Switch",
     "Non-Cooled-Dispenser", "Oven", "PCB",
     "Patient-Monitoring-System", "Photovoltaic-Panel",
     "PlayStation-5", "Power-Adapter", "Printer", "Projector",
     "Pulse-Oximeter", "Range-Hood", "Refrigerator", "Rotary-Mower",
     "Router", "SSD", "Server", "Smart-Watch", "Smartphone",
     "Smoke-Detector", "Soldering-Iron", "Speaker", "Stove",
     "Straight-Tube-Fluorescent-Lamp", "Street-Lamp",
     "TV-Remote-Control", "Table-Lamp", "Tablet", "Telephone-Set",
     "Toaster", "Tumble-Dryer", "USB-Flash-Drive", "Vacuum-Cleaner",
     "Washing-Machine", "Xbox-Series-X", "Other"}

ScheduleForm_condition_choices == {"Excellent", "Good", "Fair", "Poor"}

\* price_map of add_sample_users.calculate_estimated_price
sample_price_map ==
       "Desktop-PC" :> 150
    @@ "Laptop" :> 120
    @@ "Server" :> 200
    @@ "Smartphone" :> 70
    @@ "Tablet" :> 80
    @@ "Flat-Panel-TV" :> 90
    @@ "Refrigerator" :> 70
    @@ "Washing-Machine" :> 70
    @@ "Microwave" :> 50
    @@ "Vacuum-Cleaner" :> 35
    @@ "Coffee-Machine" :> 40
    @@ "Speaker" :> 30
    @@ "Printer" :> 60
    @@ "Air-Conditioner" :> 80

\* condition_multiplier of calculate_estimated_price, with .get(condition, 1.0)
sample_condition_multiplier(condition) ==
    CASE condition = "Excellent" -> Double_1_5
      [] condition = "Good" -> Double_1_2
      [] condition = "Fair" -> Double_1_0
      [] condition = "Poor" -> Double_0_8
      [] OTHER -> Double_1_0

\* base_price = price_map.get(ewaste_type, 30), at each entry point
bulk_base_price(ewaste_type) == Get(bulk_price_map, ewaste_type, 30)
schedule_base_price(ewaste_type) == Get(schedule_price_map, ewaste_type, 30)
sample_base_price(ewaste_type) == Get(sample_price_map, ewaste_type, 30)

\* add_sample_users.calculate_estimated_price
calculate_estimated_price(ewaste_type, condition) ==
    IntOfFloatMul(sample_base_price(ewaste_type),
                  sample_condition_multiplier(condition))

\* estimated_price = int(base_price * condition_multiplier.get(condition, 1.0))
bulk_estimated_price(ewaste_type, condition) ==
    IntOfFloatMul(Get(bulk_price_map, ewaste_type, 30),
                  bulk_condition_multiplier(condition))

schedule_estimated_price(ewaste_type, condition) ==
    IntOfFloatMul(Get(schedule_price_map, ewaste_type, 30),
                  schedule_condition_multiplier(condition))

\* (points rounded up instead of down)
eco_points_rounded_up(estimated_price) == (estimated_price + 9) \div 10

\* eco_points = estimated_price // 10
eco_points_of(estimated_price) == estimated_price \div 10

\* carbon_savings of calculate_carbon_footprint.  Every entry is a whole
\* number of kilograms, so the float products and sums formed from them are
\* exact and are written as integers.
carbon_savings ==
       "Laptop" :> 140
    @@ "Desktop-PC" :> 200
    @@ "Server" :> 250
    @@ "Tablet" :> 80
    @@ "Calculator" :> 8
    @@ "Digital-Oscilloscope" :> 90
    @@ "Computer-Keyboard" :> 8
    @@ "Computer-Mouse" :> 5
    @@ "HDD" :> 15
    @@ "SSD" :> 12
    @@ "PCB" :> 20
    @@ "Network-Switch" :> 25
    @@ "Router" :> 30
    @@ "USB-Flash-Drive" :> 6
    @@ "Smartphone" :> 60
    @@ "Bar-Phone" :> 30
    @@ "Telephone-Set" :> 25
    @@ "Smart-Watch" :> 20
    @@ "TV-Remote-Control" :> 5
    @@ "Flat-Panel-Monitor" :> 90
    @@ "CRT-Monitor" :> 150
    @@ "Flat-Panel-TV" :> 120
    @@ "CRT-TV" :> 180
    @@ "Projector" :> 70
    @@ "Air-Conditioner" :> 300
    @@ "Washing-Machine" :> 240
    @@ "Refrigerator" :> 350
    @@ "Freezer" :> 300
    @@ "Microwave" :> 100
    @@ "Dishwasher" :> 150
    @@ "Oven" :> 120
    @@ "Stove" :> 100
    @@ "Range-Hood" :> 70
    @@ "Tumble-Dryer" :> 180
    @@ "Boiler" :> 200
    @@ "Coffee-Machine" :> 50
    @@ "Vacuum-Cleaner" :> 80
    @@ "Toaster" :> 30
    @@ "Cooled-Dispenser" :> 90
    @@ "Non-Cooled-Dispenser" :> 40
    @@ "Hair-Dryer" :> 20
    @@ "Clothes-Iron" :> 25
    @@ "Speaker" :> 25
    @@ "Headphone" :> 15
    @@ "Camera" :> 40
    @@ "Music-Player" :> 30
    @@ "Electronic-Keyboard" :> 60
    @@ "Electric-Guitar" :> 45
    @@ "PlayStation-5" :> 80
    @@ "Xbox-Series-X" :> 80
    @@ "Blood-Pressure-Monitor" :> 30
    @@ "Glucose-Meter" :> 25
    @@ "Pulse-Oximeter" :> 20
    @@ "Electrocardiograph-Machine" :> 100
    @@ "Patient-Monitoring-System" :> 120
    @@ "Battery" :> 10
    @@ "LED-Bulb" :> 5
    @@ "Compact-Fluorescent-Lamps" :> 8
    @@ "Straight-Tube-Fluorescent-Lamp" :> 10
    @@ "Table-Lamp" :> 15
    @@ "Street-Lamp" :> 60
    @@ "Ceiling-Fan" :> 40
    @@ "Floor-Fan" :> 35
    @@ "Exhaust-Fan" :> 30
    @@ "Neon-Sign" :> 25
    @@ "Christmas-Lights" :> 15
    @@ "Flashlight" :> 8
    @@ "Power-Adapter" :> 7
    @@ "Smoke-Detector" :> 12
    @@ "Drone" :> 50
    @@ "Electric-Bicycle" :> 120
    @@ "Soldering-Iron" :> 15
    @@ "Photovoltaic-Panel" :> 100
    @@ "Cooling-Display" :> 130
    @@ "Rotary-Mower" :> 70
    @@ "Mobile" :> 60
    @@ "Desktop" :> 200
    @@ "Monitor" :> 90
    @@ "Other" :> 40

\* (a footprint that does not grow with the quantity)
carbon_footprint_per_type(ewaste_type, quantity) ==
    Get(carbon_savings, ewaste_type, 40)

calculate_carbon_footprint(ewaste_type, quantity) ==
    Get(carbon_savings, ewaste_type, 40) * quantity

(***************************************************************************)
(* Raw input cells.  A cell of a submitted row is a string, or is missing  *)
(* in one of the ways its source can miss it:                              *)
(*   nokey  the form list is shorter than ewaste_type[] / the file has no  *)
(*          such column (dict.get returns its default)                     *)
(*   none   csv.DictReader fills a short row with None                     *)
(*   nan    pandas reads an empty spreadsheet cell as NaN                  *)
(*   num    a numeric spreadsheet cell; inf an infinite one                *)
(* ewaste_type cells carry their text as one opaque label without blanks;  *)
(* quantity and condition cells carry it character by character.           *)
(***************************************************************************)
Str(s) == [t |-> "str", s |-> s, n |-> 0]
Label(s) == [t |-> "str", s |-> s, n |-> 0]
NoKey == [t |-> "nokey", s |-> <<>>, n |-> 0]
NoneCell == [t |-> "none", s |-> <<>>, n |-> 0]
NaN == [t |-> "nan", s |-> <<>>, n |-> 0]
Num(n) == [t |-> "num", s |-> <<>>, n |-> n]
Inf == [t |-> "inf", s |-> <<>>, n |-> 0]

Row(ewaste_type, quantity, condition) ==
    [ewaste_type |-> ewaste_type, quantity |-> quantity, condition |-> condition]

\* member names of models.EwasteCondition
EwasteCondition == {WORKING, DAMAGED, SCRAP}

BulkEwasteItem(bulk_pickup_id, ewaste_type, quantity, condition, estimated_price) ==
    [bulk_pickup_id |-> bulk_pickup_id,
     ewaste_type |-> ewaste_type,
     quantity |-> quantity,
     condition |-> condition,
     estimated_price_per_unit |-> estimated_price,
     eco_points_per_unit |-> eco_points_of(estimated_price)]

NoItem == BulkEwasteItem(0, "", 0, <<>>, 0)

\* One entry of the request's row log: what came in and what became of it.
\*   accepted  an item was added to the session and to the totals
\*   blank     an inline row with an empty ewaste_type, passed over
\*   skipped   the row raised inside a per-row try and was logged
\*   aborted   the row raised outside any per-row try
Logged(source, row, result, item) ==
    [source |-> source, row |-> row, result |-> result, item |-> item]

\* (an add that leaves the running item count alone)
add_item_uncounted(l, source, row, item) ==
    [l EXCEPT !.items = Append(@, item),
              !.total_eco_points = @ + item.eco_points_per_unit * item.quantity,
              !.log = Append(@, Logged(source, row, "accepted", item))]

\* db.session.add(item); total_items += quantity;
\* total_eco_points += eco_points * quantity
add_item(l, source, row, item) ==
    [l EXCEPT !.items = Append(@, item),
              !.total_items = @ + item.quantity,
              !.total_eco_points = @ + item.eco_points_per_unit * item.quantity,
              !.log = Append(@, Logged(source, row, "accepted", item))]

no_item(l, source, row, result) ==
    [l EXCEPT !.log = Append(@, Logged(source, row, result, NoItem))]

\* One pass of the inline loop of bulk_pickup.  The price tables are locals
\* assigned inside the loop body, so they are bound from the first row with
\* a non-empty ewaste_type on.  Nothing here runs inside a per-row try.
inline_row(l, row) ==
    IF row.ewaste_type.s = "" THEN no_item(l, "inline", row, "blank")
    ELSE
      LET q == row.quantity
          digits == q.t = "str" /\ isdigit(q.s)
          parsed == int_of_str(q.s)
          quantity == IF digits THEN parsed.val ELSE 1
          condition_value == IF row.condition.t = "str" THEN row.condition.s
                             ELSE WORKING
          estimated_price == bulk_estimated_price(row.ewaste_type.s, condition_value)
          bound == [l EXCEPT !.bound = TRUE]
      IN  IF digits /\ ~parsed.ok
            THEN no_item(l, "inline", row, "aborted")           \* ValueError
          ELSE IF condition_value \notin EwasteCondition
            THEN no_item(bound, "inline", row, "aborted")       \* KeyError
          ELSE add_item(bound, "inline", row,
                        BulkEwasteItem(l.id, row.ewaste_type.s, quantity,
                                       condition_value, estimated_price))

\* 'WORK' in s -> WORKING, 'DAMAGE' in s -> DAMAGED, else SCRAP
condition_of(condition_str) ==
    IF contains(condition_str, WORK) THEN WORKING
    ELSE IF contains(condition_str, DAMAGE) THEN DAMAGED
    ELSE SCRAP

\* One pass of the CSV loop of bulk_pickup, inside its per-row try.
csv_row(l, row) ==
    LET ewaste_type == CASE row.ewaste_type.t = "str" -> row.ewaste_type.s
                         [] row.ewaste_type.t = "none" -> "None"
                         [] OTHER -> "Other"
        parsed == int_of_str(row.quantity.s)
        quantity == CASE row.quantity.t = "str" /\ parsed.ok -> parsed.val
                      [] OTHER -> 1
        condition_str == CASE row.condition.t = "str" -> upper(strip(row.condition.s))
                           [] row.condition.t = "none" -> <<"N", "O", "N", "E">>
                           [] OTHER -> WORKING
        condition == condition_of(condition_str)
    IN  IF ~l.bound THEN no_item(l, "csv", row, "skipped")   \* UnboundLocalError
        ELSE add_item(l, "csv", row,
                      BulkEwasteItem(l.id, ewaste_type, quantity, condition,
                                     bulk_estimated_price(ewaste_type, condition)))

\* max(1, quantity)
Max(a, b) == IF a >= b THEN a ELSE b

\* One pass of the spreadsheet loop of bulk_pickup, inside its per-row try.
xlsx_row(l, row) ==
    LET raw_type == CASE row.ewaste_type.t = "str" /\ row.ewaste_type.s # ""
                           -> row.ewaste_type.s
                      [] row.ewaste_type.t = "nan" -> "nan"
                      [] OTHER -> "Other"
        ewaste_type == IF raw_type = "nan" \/ raw_type = "" THEN "Other" ELSE raw_type
        parsed == int_of_str(row.quantity.s)
        quantity == CASE row.quantity.t = "num" -> row.quantity.n
                      [] row.quantity.t = "str" /\ parsed.ok -> parsed.val
                      [] OTHER -> 1
        condition_str == CASE row.condition.t = "str" /\ row.condition.s # <<>>
                                -> upper(strip(row.condition.s))
                           [] row.condition.t = "nan" -> <<"N", "A", "N">>
                           [] OTHER -> WORKING
        condition == condition_of(condition_str)
    IN  IF row.quantity.t = "inf" THEN no_item(l, "xlsx", row, "skipped")  \* OverflowError
        ELSE IF ~l.bound THEN no_item(l, "xlsx", row, "skipped")   \* UnboundLocalError
        ELSE add_item(l, "xlsx", row,
                      BulkEwasteItem(l.id, ewaste_type, Max(1, quantity), condition,
                                     bulk_estimated_price(ewaste_type, condition)))

(***************************************************************************)
(* Bounds and input sets.                                                  *)
(***************************************************************************)
\* rows processed over a whole run, all sources together
MaxRows == 2
\* bulk submissions started over a run that handles them one after another
MaxRequests == 1
\* individual pickups scheduled over a whole run
MaxEwaste == 1

\* request slots: the requests that can be in flight together
Slots == {1, 2}

InlineRows ==
    {Row(Label("Laptop"), Str(<<"2">>), Str(WORKING)),
     Row(Label("Desktop-PC"), Str(<<"x">>), Str(DAMAGED)),
     Row(Label("Gadget"), Str(<<"0">>), Str(SCRAP)),
     Row(Label("Laptop"), NoKey, Str(<<"b", "r", "o", "k", "e", "n">>)),
     Row(Label("Server"), Str(<<"^2">>), NoKey),
     Row(Label(""), Str(<<"1">>), Str(WORKING))}

CsvRows ==
    {Row(Label("Laptop"), Str(<<"3">>), Str(<<"w", "o", "r", "k", "i", "n", "g">>)),
     Row(Label("Gadget"), Str(<<"x">>), Str(<<"D", "a", "m", "a", "g", "e", "d">>)),
     Row(Label(""), Str(<<"-", "1">>), Str(<<"j", "u", "n", "k">>)),
     Row(NoneCell, NoneCell, NoneCell)}

XlsxRows ==
    {Row(Label("Laptop"), Num(2), Str(<<"W", "o", "r", "k", "i", "n", "g">>)),
     Row(Label("Refrigerator"), Str(<<"x">>), Str(<<"d", "a", "m", "a", "g", "e", "d">>)),
     Row(Label("Gadget"), Num(0 - 1), Str(<<"s", "c", "r", "a", "p">>)),
     Row(Label("Laptop"), Inf, Str(WORKING)),
     Row(NaN, NaN, NaN)}

\* the rows two overlapping submissions draw from
OverlapRows ==
    {Row(Label("Laptop"), Str(<<"2">>), Str(WORKING)),
     Row(Label("Server"), Str(<<"1">>), Str(SCRAP))}

\* what the schedule form carries in the request-level specifications
ScheduleInputs == {<<"Dehumidifier", "Poor">>}

(***************************************************************************)
(* State.                                                                  *)
(***************************************************************************)
VARIABLES
    users_row,          \* the stored row of the user: eco_points, carbon_saved
    bulk_pickups,       \* committed rows of bulk_pickups, in commit order
    bulk_ewaste_items,  \* committed rows of bulk_ewaste_items
    ewaste,             \* committed rows of ewaste
    schedule_rows,      \* committed rows of schedule
    session_eco_points, \* session['eco_points'] of the user's browser session
    req,                \* per slot: the bulk_pickup request it is handling
    next_id,            \* next primary key of bulk_pickups
    started,            \* bulk submissions started so far
    nrows,              \* rows processed so far
    val,                \* the last valuation computed by Valuate
    resp,               \* the last answer of a classification endpoint
    certificate,        \* what the last bulk certificate generated states
    rewards_row,        \* the stored row of the reward: active, stock, points_required
    redemptions,        \* committed rows of redemptions
    redeem              \* per slot: the redeem_reward request it is handling

vars == <<users_row, bulk_pickups, bulk_ewaste_items, ewaste, schedule_rows,
          session_eco_points, req, next_id, started, nrows, val, resp,
          certificate, rewards_row, redemptions, redeem>>

rewards == <<rewards_row, redemptions, redeem>>

stored == <<users_row, bulk_pickups, bulk_ewaste_items, ewaste, schedule_rows>>

Idle ==
    [pc |-> "idle", user |-> [eco_points |-> 0, carbon_saved |-> 0], id |-> 0,
     items |-> <<>>, total_items |-> 0, total_eco_points |-> 0, bound |-> FALSE,
     file |-> "none", file_failed |-> FALSE, log |-> <<>>, carbon_saved |-> 0,
     request_certificate |-> TRUE]

NoValuation ==
    [path |-> "none", ewaste_type |-> "", condition |-> "", estimated_price |-> 0,
     eco_points |-> 0, carbon |-> 0]

InFlight == {"inline", "file", "finish"}

NoResponse == [endpoint |-> "none", status |-> 0]

\* models.Reward: active and stock with their column defaults
Reward(points_required, stock, active) ==
    [points_required |-> points_required, stock |-> stock, active |-> active]

\* a slot that handles no redeem_reward request
NoRedeem == [pc |-> "idle", eco_points |-> 0, stock |-> 0, points_required |-> 0]

NoCertificate ==
    [bulk_pickup_id |-> 0, status |-> "", total_carbon_saved |-> 0, total_items |-> 0,
     total_eco_points |-> 0]

Init ==
    /\ users_row = [eco_points |-> 0, carbon_saved |-> 0]
    /\ bulk_pickups = <<>>
    /\ bulk_ewaste_items = <<>>
    /\ ewaste = <<>>
    /\ schedule_rows = <<>>
    /\ session_eco_points = 0
    /\ req = [r \in Slots |-> Idle]
    /\ next_id = 1
    /\ started = 0
    /\ nrows = 0
    /\ val = NoValuation
    /\ resp = NoResponse
    /\ certificate = NoCertificate
    /\ rewards_row = Reward(3, 1, TRUE)
    /\ redemptions = <<>>
    /\ redeem = [r \in Slots |-> NoRedeem]

(***************************************************************************)
(* bulk_pickup                                                             *)
(***************************************************************************)
\* GET, or a POST the form rejects: the user is read and the navbar value
\* refreshed; nothing else happens.
BulkPickupPage(r) ==
    /\ req[r].pc \notin InFlight
    /\ session_eco_points' = users_row.eco_points
    /\ UNCHANGED <<stored, req, next_id, started, nrows, val, resp, certificate, rewards>>

\* (a submission whose running points start from the user's balance)
Begin_from_balance(r, request_certificate) ==
    /\ req[r].pc \notin InFlight
    /\ req' = [req EXCEPT ![r] = [Idle EXCEPT !.pc = "inline",
                                              !.user = users_row,
                                              !.id = next_id,
                                              !.total_eco_points = users_row.eco_points,
                                              !.request_certificate = request_certificate]]
    /\ session_eco_points' = users_row.eco_points
    /\ next_id' = next_id + 1
    /\ started' = started + 1
    /\ UNCHANGED <<stored, nrows, val, resp, certificate, rewards>>

\* A valid POST up to the flush of the new BulkPickup: User.query.get reads
\* the user into this request's session, the navbar value is refreshed, and
\* the flush draws the primary key.
Begin(r, request_certificate) ==
    /\ req[r].pc \notin InFlight
    /\ req' = [req EXCEPT ![r] = [Idle EXCEPT !.pc = "inline",
                                              !.user = users_row,
                                              !.id = next_id,
                                              !.request_certificate = request_certificate]]
    /\ session_eco_points' = users_row.eco_points
    /\ next_id' = next_id + 1
    /\ started' = started + 1
    /\ UNCHANGED <<stored, nrows, val, resp, certificate, rewards>>

\* db.session.rollback() in the handler's except: everything this request
\* added or changed is discarded, the store keeps what was committed.
rollback_bulk_pickups(r) == bulk_pickups

\* (a rollback that leaves the flushed inserts behind)
rollback_keeps_inserts(r) == bulk_ewaste_items \o req[r].items

rollback_bulk_ewaste_items(r) == bulk_ewaste_items
rollback_users_row(r) == users_row

Rollback(r) ==
    /\ bulk_pickups' = rollback_bulk_pickups(r)
    /\ bulk_ewaste_items' = rollback_bulk_ewaste_items(r)
    /\ users_row' = rollback_users_row(r)
    /\ UNCHANGED <<ewaste, schedule_rows>>

\* The same POST when the first flush fails.
BeginFail(r) ==
    /\ req[r].pc \notin InFlight
    /\ req' = [req EXCEPT ![r] = [Idle EXCEPT !.pc = "failed",
                                              !.user = users_row,
                                              !.id = next_id]]
    /\ session_eco_points' = users_row.eco_points
    /\ next_id' = next_id + 1
    /\ started' = started + 1
    /\ Rollback(r)
    /\ UNCHANGED <<nrows, val, resp, certificate, rewards>>

\* One inline row.  A row that raises leaves the loop and the handler's try:
\* the request rolls back and reports the failure.
InlineRow(r, row) ==
    /\ req[r].pc = "inline"
    /\ nrows < MaxRows
    /\ nrows' = nrows + 1
    /\ LET l == inline_row(req[r], row)
       IN  IF l.log[Len(l.log)].result = "aborted"
           THEN /\ req' = [req EXCEPT ![r] = [l EXCEPT !.pc = "failed"]]
                /\ Rollback(r)
           ELSE /\ req' = [req EXCEPT ![r] = l]
                /\ UNCHANGED stored
    /\ UNCHANGED <<session_eco_points, next_id, started, val, resp, certificate, rewards>>

\* The inline loop ends; the uploaded file, if any, is looked at.  kind is
\* "csv" or "xlsx" by the file name's ending, "none" when no file was
\* uploaded or its name has neither ending (the file block does nothing).
InlineEnd(r, kind) ==
    /\ req[r].pc = "inline"
    /\ req' = [req EXCEPT ![r].file = kind,
                          ![r].pc = IF kind \in {"csv", "xlsx"} THEN "file" ELSE "finish"]
    /\ UNCHANGED <<stored, session_eco_points, next_id, started, nrows, val, resp,
                   certificate, rewards>>

\* One row of the uploaded file.
FileRow(r, row) ==
    /\ req[r].pc = "file"
    /\ nrows < MaxRows
    /\ nrows' = nrows + 1
    /\ req' = [req EXCEPT ![r] = IF req[r].file = "csv" THEN csv_row(@, row)
                                 ELSE xlsx_row(@, row)]
    /\ UNCHANGED <<stored, session_eco_points, next_id, started, val, resp,
                   certificate, rewards>>

\* The file's rows are exhausted.
FileEnd(r) ==
    /\ req[r].pc = "file"
    /\ req' = [req EXCEPT ![r].pc = "finish"]
    /\ UNCHANGED <<stored, session_eco_points, next_id, started, nrows, val, resp,
                   certificate, rewards>>

\* Reading the file raises outside the per-row try (unreadable workbook,
\* csv.Error while iterating, removing the temporary file): caught and
\* logged by the file-level except, the request goes on.
FileFail(r) ==
    /\ req[r].pc = "file"
    /\ req' = [req EXCEPT ![r].pc = "finish", ![r].file_failed = TRUE]
    /\ UNCHANGED <<stored, session_eco_points, next_id, started, nrows, val, resp,
                   certificate, rewards>>

\* (a carbon total that counts every row as one unit)
RECURSIVE carbon_sum_per_row(_)
carbon_sum_per_row(items) ==
    IF items = <<>> THEN 0
    ELSE calculate_carbon_footprint(Head(items).ewaste_type, 1)
         + carbon_sum_per_row(Tail(items))

\* sum(calculate_carbon_footprint(item.ewaste_type, item.quantity)
\*     for item in bulk_pickup.ewaste_items)
RECURSIVE carbon_sum(_)
carbon_sum(items) ==
    IF items = <<>> THEN 0
    ELSE calculate_carbon_footprint(Head(items).ewaste_type, Head(items).quantity)
         + carbon_sum(Tail(items))

\* the user object of this request after lines 377-383
updated_user(l) ==
    [eco_points |-> l.user.eco_points + l.total_eco_points,
     carbon_saved |-> l.user.carbon_saved + carbon_sum(l.items)]

\* What the commit's UPDATE of the users row leaves stored: the unit of work
\* writes a column only when the request changed its value, so a counter the
\* request raised by nothing keeps what is stored.
written_user(l) ==
    [eco_points |-> IF updated_user(l).eco_points # l.user.eco_points
                    THEN updated_user(l).eco_points ELSE users_row.eco_points,
     carbon_saved |-> IF updated_user(l).carbon_saved # l.user.carbon_saved
                      THEN updated_user(l).carbon_saved ELSE users_row.carbon_saved]

BulkPickup(l) ==
    [id |-> l.id, total_items |-> l.total_items,
     estimated_eco_points |-> l.total_eco_points, status |-> "PENDING",
     request_certificate |-> l.request_certificate, certificate_path |-> <<>>,
     actual_eco_points |-> 0, assigned_team |-> ""]

\* The totals are set, the user's counters raised and db.session.commit()
\* succeeds: the pickup, its items and the user row are written together.
Commit(r) ==
    /\ req[r].pc = "finish"
    /\ session_eco_points' = updated_user(req[r]).eco_points
    /\ bulk_pickups' = Append(bulk_pickups, BulkPickup(req[r]))
    /\ bulk_ewaste_items' = bulk_ewaste_items \o req[r].items
    /\ users_row' = written_user(req[r])
    /\ req' = [req EXCEPT ![r].pc = "committed",
                          ![r].carbon_saved = carbon_sum(req[r].items)]
    /\ UNCHANGED <<ewaste, schedule_rows, next_id, started, nrows, val, resp,
                   certificate, rewards>>

\* The same, but the commit (or the flush it starts) fails.
CommitFail(r) ==
    /\ req[r].pc = "finish"
    /\ session_eco_points' = updated_user(req[r]).eco_points
    /\ Rollback(r)
    /\ req' = [req EXCEPT ![r].pc = "failed"]
    /\ UNCHANGED <<next_id, started, nrows, val, resp, certificate, rewards>>

(***************************************************************************)
(* schedule                                                                *)
(***************************************************************************)
Ewaste(ewaste_type, condition) ==
    LET estimated_price == schedule_estimated_price(ewaste_type, condition)
    IN  [ewaste_type |-> ewaste_type, condition |-> condition,
         estimated_price |-> estimated_price,
         eco_points |-> eco_points_of(estimated_price)]

\* A valid POST of the schedule form, start to commit.  The new schedule
\* row has no updated_at yet (written 0; every update of the row sets a
\* later time).
Schedule(ewaste_type, condition) ==
    /\ Len(ewaste) < MaxEwaste
    /\ LET new_ewaste == Ewaste(ewaste_type, condition)
       IN  /\ ewaste' = Append(ewaste, new_ewaste)
           /\ schedule_rows' = Append(schedule_rows,
                                      [ewaste_id |-> Len(ewaste) + 1, status |-> "Pending",
                                       updated_at |-> 0])
           /\ users_row' = [eco_points |-> users_row.eco_points + new_ewaste.eco_points,
                            carbon_saved |-> users_row.carbon_saved
                                             + calculate_carbon_footprint(ewaste_type, 1)]
           /\ session_eco_points' = users_row.eco_points + new_ewaste.eco_points
    /\ UNCHANGED <<bulk_pickups, bulk_ewaste_items, req, next_id, started, nrows,
                   val, resp, certificate, rewards>>

(***************************************************************************)
(* Specifications.                                                         *)
(***************************************************************************)
\* Requests handled one after another: slot 1 only.
Next ==
    \/ BulkPickupPage(1)
    \/ started < MaxRequests /\ Begin(1, TRUE)
    \/ started < MaxRequests /\ BeginFail(1)
    \/ \E row \in InlineRows : InlineRow(1, row)
    \/ \E kind \in {"none", "csv", "xlsx"} : InlineEnd(1, kind)
    \/ \E row \in CsvRows : req[1].file = "csv" /\ FileRow(1, row)
    \/ \E row \in XlsxRows : req[1].file = "xlsx" /\ FileRow(1, row)
    \/ FileEnd(1)
    \/ FileFail(1)
    \/ Commit(1)
    \/ CommitFail(1)
    \/ \E in \in ScheduleInputs :
          req[1].pc \notin InFlight /\ Schedule(in[1], in[2])

Spec == Init /\ [][Next]_vars

\* Two submissions of the same user, one per slot, whose handling may
\* overlap.
NextOverlap ==
    \E r \in Slots :
        \/ req[r].pc = "idle" /\ Begin(r, TRUE)
        \/ \E row \in OverlapRows : InlineRow(r, row)
        \/ InlineEnd(r, "none")
        \/ Commit(r)

SpecOverlap == Init /\ [][NextOverlap]_vars

(***************************************************************************)
(* The valuation on its own: one (path, category, condition) at a time is  *)
(* priced the way the path's handler prices it.                            *)
(***************************************************************************)
ConditionName(condition) ==
    CASE condition = WORKING -> "WORKING"
      [] condition = DAMAGED -> "DAMAGED"
      [] condition = SCRAP -> "SCRAP"

\* labels that are keys of no table
UnknownTypes == {"Gadget", "None", ""}

BulkTypes == DOMAIN bulk_price_map \cup DOMAIN carbon_savings \cup UnknownTypes

ValuateSchedule(ewaste_type, condition) ==
    LET e == Ewaste(ewaste_type, condition)
    IN  /\ val = NoValuation
        /\ val' = [path |-> "schedule", ewaste_type |-> ewaste_type,
                   condition |-> condition, estimated_price |-> e.estimated_price,
                   eco_points |-> e.eco_points,
                   carbon |-> calculate_carbon_footprint(ewaste_type, 1)]
        /\ UNCHANGED <<stored, session_eco_points, req, next_id, started, nrows,
                       resp, certificate, rewards>>

ValuateBulk(ewaste_type, condition) ==
    LET i == BulkEwasteItem(0, ewaste_type, 1, condition,
                            bulk_estimated_price(ewaste_type, condition))
    IN  /\ val = NoValuation
        /\ val' = [path |-> "bulk", ewaste_type |-> ewaste_type,
                   condition |-> ConditionName(condition),
                   estimated_price |-> i.estimated_price_per_unit,
                   eco_points |-> i.eco_points_per_unit,
                   carbon |-> calculate_carbon_footprint(ewaste_type, 1)]
        /\ UNCHANGED <<stored, session_eco_points, req, next_id, started, nrows,
                       resp, certificate, rewards>>

NextValuation ==
    \/ \E t \in ScheduleForm_ewaste_type_choices, c \in ScheduleForm_condition_choices :
          ValuateSchedule(t, c)
    \/ \E t \in BulkTypes, c \in EwasteCondition : ValuateBulk(t, c)

SpecValuation == Init /\ [][NextValuation]_vars

(***************************************************************************)
(* The carbon footprint on its own: calculate_carbon_footprint for one     *)
(* category and one quantity at a time.                                    *)
(***************************************************************************)
\* largest quantity the footprint is computed for
MaxQuantity == 3

CarbonTypes == DOMAIN carbon_savings \cup UnknownTypes

Footprint(ewaste_type, quantity) ==
    /\ val = NoValuation
    /\ val' = [path |-> "carbon", ewaste_type |-> ewaste_type, quantity |-> quantity,
               carbon |-> calculate_carbon_footprint(ewaste_type, quantity),
               carbon_per_unit |-> calculate_carbon_footprint(ewaste_type, 1)]
    /\ UNCHANGED <<stored, session_eco_points, req, next_id, started, nrows, resp,
                   certificate, rewards>>

NextCarbon ==
    \E t \in CarbonTypes, n \in 1..MaxQuantity : Footprint(t, n)

SpecCarbon == Init /\ [][NextCarbon]_vars

(***************************************************************************)
(* The base price of a category at the three places that price a device.   *)
(***************************************************************************)
PricedTypes ==
    DOMAIN bulk_price_map \cup DOMAIN schedule_price_map \cup DOMAIN sample_price_map
      \cup UnknownTypes

BasePrice(ewaste_type, condition) ==
    /\ val = NoValuation
    /\ val' = [path |-> "base_price", ewaste_type |-> ewaste_type,
               condition |-> condition,
               schedule |-> schedule_base_price(ewaste_type),
               bulk |-> bulk_base_price(ewaste_type),
               sample |-> sample_base_price(ewaste_type),
               sample_estimated_price |-> calculate_estimated_price(ewaste_type, condition)]
    /\ UNCHANGED <<stored, session_eco_points, req, next_id, started, nrows, resp,
                   certificate, rewards>>

NextBasePrice ==
    \E t \in PricedTypes, c \in ScheduleForm_condition_choices : BasePrice(t, c)

SpecBasePrice == Init /\ [][NextBasePrice]_vars

(***************************************************************************)
(* Image classification: api.classify_image, its offline heuristic and the *)
(* two endpoints that answer with its best prediction.                     *)
(***************************************************************************)
LowerChar(c) ==
    IF \E i \in 1..26 : UpperAlphabet[i] = c
    THEN LowerAlphabet[CHOOSE i \in 1..26 : UpperAlphabet[i] = c]
    ELSE c

\* str.lower()
lower(s) == [i \in 1..Len(s) |-> LowerChar(s[i])]

\* class_to_type of classify
classify_class_to_type ==
       <<"a", "i", "r", "-", "c", "o", "n", "d", "i", "t", "i", "o", "n", "e", "r">>
         :> <<"A", "i", "r", "-", "C", "o", "n", "d", "i", "t", "i", "o", "n", "e", "r">>
    @@ <<"b", "a", "r", "-", "p", "h", "o", "n", "e">>
         :> <<"B", "a", "r", "-", "P", "h", "o", "n", "e">>
    @@ <<"b", "a", "t", "t", "e", "r", "y">>
         :> <<"B", "a", "t", "t", "e", "r", "y">>
    @@ <<"b", "l", "o", "o", "d", "-", "p", "r", "e", "s", "s", "u", "r", "e", "-", "m", "o", "n", "i", "t", "o", "r">>
         :> <<"B", "l", "o", "o", "d", "-", "P", "r", "e", "s", "s", "u", "r", "e", "-", "M", "o", "n", "i", "t", "o", "r">>
    @@ <<"b", "o", "i", "l", "e", "r">>
         :> <<"B", "o", "i", "l", "e", "r">>
    @@ <<"c", "r", "t", "-", "m", "o", "n", "i", "t", "o", "r">>
         :> <<"C", "R", "T", "-", "M", "o", "n", "i", "t", "o", "r">>
    @@ <<"c", "r", "t", "-", "t", "v">>
         :> <<"C", "R", "T", "-", "T", "V">>
    @@ <<"c", "a", "l", "c", "u", "l", "a", "t", "o", "r">>
         :> <<"C", "a", "l", "c", "u", "l", "a", "t", "o", "r">>
    @@ <<"c", "a", "m", "e", "r", "a">>
         :> <<"C", "a", "m", "e", "r", "a">>
    @@ <<"c", "e", "i", "l", "i", "n", "g", "-", "f", "a", "n">>
         :> <<"C", "e", "i", "l", "i", "n", "g", "-", "F", "a", "n">>
    @@ <<"c", "h", "r", "i", "s", "t", "m", "a", "s", "-", "l", "i", "g", "h", "t", "s">>
         :> <<"C", "h", "r", "i", "s", "t", "m", "a", "s", "-", "L", "i", "g", "h", "t", "s">>
    @@ <<"c", "l", "o", "t", "h", "e", "s", "-", "i", "r", "o", "n">>
         :> <<"C", "l", "o", "t", "h", "e", "s", "-", "I", "r", "o", "n">>
    @@ <<"c", "o", "f", "f", "e", "e", "-", "m", "a", "c", "h", "i", "n", "e">>
         :> <<"C", "o", "f", "f", "e", "e", "-", "M", "a", "c", "h", "i", "n", "e">>
    @@ <<"c", "o", "m", "p", "a", "c", "t", "-", "f", "l", "u", "o", "r", "e", "s", "c", "e", "n", "t", "-", "l", "a", "m", "p", "s">>
         :> <<"C", "o", "m", "p", "a", "c", "t", "-", "F", "l", "u", "o", "r", "e", "s", "c", "e", "n", "t", "-", "L", "a", "m", "p", "s">>
    @@ <<"c", "o", "m", "p", "u", "t", "e", "r", "-", "k", "e", "y", "b", "o", "a", "r", "d">>
         :> <<"C", "o", "m", "p", "u", "t", "e", "r", "-", "K", "e", "y", "b", "o", "a", "r", "d">>
    @@ <<"c", "o", "m", "p", "u", "t", "e", "r", "-", "m", "o", "u", "s", "e">>
         :> <<"C", "o", "m", "p", "u", "t", "e", "r", "-", "M", "o", "u", "s", "e">>
    @@ <<"c", "o", "o", "l", "e", "d", "-", "d", "i", "s", "p", "e", "n", "s", "e", "r">>
         :> <<"C", "o", "o", "l", "e", "d", "-", "D", "i", "s", "p", "e", "n", "s", "e", "r">>
    @@ <<"c", "o", "o", "l", "i", "n", "g", "-", "d", "i", "s", "p", "l", "a", "y">>
         :> <<"C", "o", "o", "l", "i", "n", "g", "-", "D", "i", "s", "p", "l", "a", "y">>
    @@ <<"d", "e", "h", "u", "m", "i", "d", "i", "f", "i", "e", "r">>
         :> <<"D", "e", "h", "u", "m", "i", "d", "i", "f", "i", "e", "r">>
    @@ <<"d", "e", "s", "k", "t", "o", "p", "-", "p", "c">>
         :> <<"D", "e", "s", "k", "t", "o", "p", "-", "P", "C">>
    @@ <<"d", "e", "s", "k", "t", "o", "p">>
         :> <<"D", "e", "s", "k", "t", "o", "p", "-", "P", "C">>
    @@ <<"d", "i", "g", "i", "t", "a", "l", "-", "o", "s", "c", "i", "l", "l", "o", "s", "c", "o", "p", "e">>
         :> <<"D", "i", "g", "i", "t", "a", "l", "-", "O", "s", "c", "i", "l", "l", "o", "s", "c", "o", "p", "e">>
    @@ <<"d", "i", "s", "h", "w", "a", "s", "h", "e", "r">>
         :> <<"D", "i", "s", "h", "w", "a", "s", "h", "e", "r">>
    @@ <<"d", "r", "o", "n", "e">>
         :> <<"D", "r", "o", "n", "e">>
    @@ <<"e", "l", "e", "c", "t", "r", "i", "c", "-", "b", "i", "c", "y", "c", "l", "e">>
         :> <<"E", "l", "e", "c", "t", "r", "i", "c", "-", "B", "i", "c", "y", "c", "l", "e">>
    @@ <<"e", "l", "e", "c", "t", "r", "i", "c", "-", "g", "u", "i", "t", "a", "r">>
         :> <<"E", "l", "e", "c", "t", "r", "i", "c", "-", "G", "u", "i", "t", "a", "r">>
    @@ <<"e", "l", "e", "c", "t", "r", "o", "c", "a", "r", "d", "i", "o", "g", "r", "a", "p", "h", "-", "m", "a", "c", "h", "i", "n", "e">>
         :> <<"E", "l", "e", "c", "t", "r", "o", "c", "a", "r", "d", "i", "o", "g", "r", "a", "p", "h", "-", "M", "a", "c", "h", "i", "n", "e">>
    @@ <<"e", "l", "e", "c", "t", "r", "o", "n", "i", "c", "-", "k", "e", "y", "b", "o", "a", "r", "d">>
         :> <<"E", "l", "e", "c", "t", "r", "o", "n", "i", "c", "-", "K", "e", "y", "b", "o", "a", "r", "d">>
    @@ <<"e", "x", "h", "a", "u", "s", "t", "-", "f", "a", "n">>
         :> <<"E", "x", "h", "a", "u", "s", "t", "-", "F", "a", "n">>
    @@ <<"f", "l", "a", "s", "h", "l", "i", "g", "h", "t">>
         :> <<"F", "l", "a", "s", "h", "l", "i", "g", "h", "t">>
    @@ <<"f", "l", "a", "t", "-", "p", "a", "n", "e", "l", "-", "m", "o", "n", "i", "t", "o", "r">>
         :> <<"F", "l", "a", "t", "-", "P", "a", "n", "e", "l", "-", "M", "o", "n", "i", "t", "o", "r">>
    @@ <<"f", "l", "a", "t", "-", "p", "a", "n", "e", "l", "-", "t", "v">>
         :> <<"F", "l", "a", "t", "-", "P", "a", "n", "e", "l", "-", "T", "V">>
    @@ <<"m", "o", "n", "i", "t", "o", "r">>
         :> <<"F", "l", "a", "t", "-", "P", "a", "n", "e", "l", "-", "M", "o", "n", "i", "t", "o", "r">>
    @@ <<"t", "v">>
         :> <<"F", "l", "a", "t", "-", "P", "a", "n", "e", "l", "-", "T", "V">>
    @@ <<"f", "l", "o", "o", "r", "-", "f", "a", "n">>
         :> <<"F", "l", "o", "o", "r", "-", "F", "a", "n">>
    @@ <<"f", "r", "e", "e", "z", "e", "r">>
         :> <<"F", "r", "e", "e", "z", "e", "r">>
    @@ <<"g", "l", "u", "c", "o", "s", "e", "-", "m", "e", "t", "e", "r">>
         :> <<"G", "l", "u", "c", "o", "s", "e", "-", "M", "e", "t", "e", "r">>
    @@ <<"h", "d", "d">>
         :> <<"H", "D", "D">>
    @@ <<"h", "a", "r", "d", " ", "d", "i", "s", "k">>
         :> <<"H", "D", "D">>
    @@ <<"h", "a", "i", "r", "-", "d", "r", "y", "e", "r">>
         :> <<"H", "a", "i", "r", "-", "D", "r", "y", "e", "r">>
    @@ <<"h", "e", "a", "d", "p", "h", "o", "n", "e">>
         :> <<"H", "e", "a", "d", "p", "h", "o", "n", "e">>
    @@ <<"l", "e", "d", "-", "b", "u", "l", "b">>
         :> <<"L", "E", "D", "-", "B", "u", "l", "b">>
    @@ <<"l", "a", "p", "t", "o", "p">>
         :> <<"L", "a", "p", "t", "o", "p">>
    @@ <<"m", "i", "c", "r", "o", "w", "a", "v", "e">>
         :> <<"M", "i", "c", "r", "o", "w", "a", "v", "e">>
    @@ <<"m", "u", "s", "i", "c", "-", "p", "l", "a", "y", "e", "r">>
         :> <<"M", "u", "s", "i", "c", "-", "P", "l", "a", "y", "e", "r">>
    @@ <<"n", "e", "o", "n", "-", "s", "i", "g", "n">>
         :> <<"N", "e", "o", "n", "-", "S", "i", "g", "n">>
    @@ <<"n", "e", "t", "w", "o", "r", "k", "-", "s", "w", "i", "t", "c", "h">>
         :> <<"N", "e", "t", "w", "o", "r", "k", "-", "S", "w", "i", "t", "c", "h">>
    @@ <<"n", "o", "n", "-", "c", "o", "o", "l", "e", "d", "-", "d", "i", "s", "p", "e", "n", "s", "e", "r">>
         :> <<"N", "o", "n", "-", "C", "o", "o", "l", "e", "d", "-", "D", "i", "s", "p", "e", "n", "s", "e", "r">>
    @@ <<"o", "v", "e", "n">>
         :> <<"O", "v", "e", "n">>
    @@ <<"p", "c", "b">>
         :> <<"P", "C", "B">>
    @@ <<"p", "a", "t", "i", "e", "n", "t", "-", "m", "o", "n", "i", "t", "o", "r", "i", "n", "g", "-", "s", "y", "s", "t", "e", "m">>
         :> <<"P", "a", "t", "i", "e", "n", "t", "-", "M", "o", "n", "i", "t", "o", "r", "i", "n", "g", "-", "S", "y", "s", "t", "e", "m">>
    @@ <<"p", "h", "o", "t", "o", "v", "o", "l", "t", "a", "i", "c", "-", "p", "a", "n", "e", "l">>
         :> <<"P", "h", "o", "t", "o", "v", "o", "l", "t", "a", "i", "c", "-", "P", "a", "n", "e", "l">>
    @@ <<"p", "l", "a", "y", "s", "t", "a", "t", "i", "o", "n", "-", "5">>
         :> <<"P", "l", "a", "y", "S", "t", "a", "t", "i", "o", "n", "-", "5">>
    @@ <<"p", "s", "5">>
         :> <<"P", "l", "a", "y", "S", "t", "a", "t", "i", "o", "n", "-", "5">>
    @@ <<"p", "o", "w", "e", "r", "-", "a", "d", "a", "p", "t", "e", "r">>
         :> <<"P", "o", "w", "e", "r", "-", "A", "d", "a", "p", "t", "e", "r">>
    @@ <<"p", "r", "i", "n", "t", "e", "r">>
         :> <<"P", "r", "i", "n", "t", "e", "r">>
    @@ <<"p", "r", "o", "j", "e", "c", "t", "o", "r">>
         :> <<"P", "r", "o", "j", "e", "c", "t", "o", "r">>
    @@ <<"p", "u", "l", "s", "e", "-", "o", "x", "i", "m", "e", "t", "e", "r">>
         :> <<"P", "u", "l", "s", "e", "-", "O", "x", "i", "m", "e", "t", "e", "r">>
    @@ <<"r", "a", "n", "g", "e", "-", "h", "o", "o", "d">>
         :> <<"R", "a", "n", "g", "e", "-", "H", "o", "o", "d">>
    @@ <<"r", "e", "f", "r", "i", "g", "e", "r", "a", "t", "o", "r">>
         :> <<"R", "e", "f", "r", "i", "g", "e", "r", "a", "t", "o", "r">>
    @@ <<"r", "o", "t", "a", "r", "y", "-", "m", "o", "w", "e", "r">>
         :> <<"R", "o", "t", "a", "r", "y", "-", "M", "o", "w", "e", "r">>
    @@ <<"r", "o", "u", "t", "e", "r">>
         :> <<"R", "o", "u", "t", "e", "r">>
    @@ <<"s", "s", "d">>
         :> <<"S", "S", "D">>
    @@ <<"s", "e", "r", "v", "e", "r">>
         :> <<"S", "e", "r", "v", "e", "r">>
    @@ <<"s", "m", "a", "r", "t", "-", "w", "a", "t", "c", "h">>
         :> <<"S", "m", "a", "r", "t", "-", "W", "a", "t", "c", "h">>
    @@ <<"s", "m", "a", "r", "t", "p", "h", "o", "n", "e">>
         :> <<"S", "m", "a", "r", "t", "p", "h", "o", "n", "e">>
    @@ <<"m", "o", "b", "i", "l", "e">>
         :> <<"S", "m", "a", "r", "t", "p", "h", "o", "n", "e">>
    @@ <<"p", "h", "o", "n", "e">>
         :> <<"S", "m", "a", "r", "t", "p", "h", "o", "n", "e">>
    @@ <<"c", "e", "l", "l", " ", "p", "h", "o", "n", "e">>
         :> <<"S", "m", "a", "r", "t", "p", "h", "o", "n", "e">>
    @@ <<"s", "m", "o", "k", "e", "-", "d", "e", "t", "e", "c", "t", "o", "r">>
         :> <<"S", "m", "o", "k", "e", "-", "D", "e", "t", "e", "c", "t", "o", "r">>
    @@ <<"s", "o", "l", "d", "e", "r", "i", "n", "g", "-", "i", "r", "o", "n">>
         :> <<"S", "o", "l", "d", "e", "r", "i", "n", "g", "-", "I", "r", "o", "n">>
    @@ <<"s", "p", "e", "a", "k", "e", "r">>
         :> <<"S", "p", "e", "a", "k", "e", "r">>
    @@ <<"s", "t", "o", "v", "e">>
         :> <<"S", "t", "o", "v", "e">>
    @@ <<"s", "t", "r", "a", "i", "g", "h", "t", "-", "t", "u", "b", "e", "-", "f", "l", "u", "o", "r", "e", "s", "c", "e", "n", "t", "-", "l", "a", "m", "p">>
         :> <<"S", "t", "r", "a", "i", "g", "h", "t", "-", "T", "u", "b", "e", "-", "F", "l", "u", "o", "r", "e", "s", "c", "e", "n", "t", "-", "L", "a", "m", "p">>
    @@ <<"s", "t", "r", "e", "e", "t", "-", "l", "a", "m", "p">>
         :> <<"S", "t", "r", "e", "e", "t", "-", "L", "a", "m", "p">>
    @@ <<"t", "v", "-", "r", "e", "m", "o", "t", "e", "-", "c", "o", "n", "t", "r", "o", "l">>
         :> <<"T", "V", "-", "R", "e", "m", "o", "t", "e", "-", "C", "o", "n", "t", "r", "o", "l">>
    @@ <<"r", "e", "m", "o", "t", "e">>
         :> <<"T", "V", "-", "R", "e", "m", "o", "t", "e", "-", "C", "o", "n", "t", "r", "o", "l">>
    @@ <<"t", "a", "b", "l", "e", "-", "l", "a", "m", "p">>
         :> <<"T", "a", "b", "l", "e", "-", "L", "a", "m", "p">>
    @@ <<"t", "a", "b", "l", "e", "t">>
         :> <<"T", "a", "b", "l", "e", "t">>
    @@ <<"t", "e", "l", "e", "p", "h", "o", "n", "e", "-", "s", "e", "t">>
         :> <<"T", "e", "l", "e", "p", "h", "o", "n", "e", "-", "S", "e", "t">>
    @@ <<"t", "o", "a", "s", "t", "e", "r">>
         :> <<"T", "o", "a", "s", "t", "e", "r">>
    @@ <<"t", "u", "m", "b", "l", "e", "-", "d", "r", "y", "e", "r">>
         :> <<"T", "u", "m", "b", "l", "e", "-", "D", "r", "y", "e", "r">>
    @@ <<"d", "r", "y", "e", "r">>
         :> <<"T", "u", "m", "b", "l", "e", "-", "D", "r", "y", "e", "r">>
    @@ <<"u", "s", "b", "-", "f", "l", "a", "s", "h", "-", "d", "r", "i", "v", "e">>
         :> <<"U", "S", "B", "-", "F", "l", "a", "s", "h", "-", "D", "r", "i", "v", "e">>
    @@ <<"u", "s", "b">>
         :> <<"U", "S", "B", "-", "F", "l", "a", "s", "h", "-", "D", "r", "i", "v", "e">>
    @@ <<"v", "a", "c", "u", "u", "m", "-", "c", "l", "e", "a", "n", "e", "r">>
         :> <<"V", "a", "c", "u", "u", "m", "-", "C", "l", "e", "a", "n", "e", "r">>
    @@ <<"w", "a", "s", "h", "i", "n", "g", "-", "m", "a", "c", "h", "i", "n", "e">>
         :> <<"W", "a", "s", "h", "i", "n", "g", "-", "M", "a", "c", "h", "i", "n", "e">>
    @@ <<"w", "a", "s", "h", "e", "r">>
         :> <<"W", "a", "s", "h", "i", "n", "g", "-", "M", "a", "c", "h", "i", "n", "e">>
    @@ <<"x", "b", "o", "x", "-", "s", "e", "r", "i", "e", "s", "-", "x">>
         :> <<"X", "b", "o", "x", "-", "S", "e", "r", "i", "e", "s", "-", "X">>
    @@ <<"x", "b", "o", "x">>
         :> <<"X", "b", "o", "x", "-", "S", "e", "r", "i", "e", "s", "-", "X">>

\* class_to_type of api_classify
api_classify_class_to_type ==
       <<"a", "i", "r", "-", "c", "o", "n", "d", "i", "t", "i", "o", "n", "e", "r">>
         :> <<"A", "i", "r", "-", "C", "o", "n", "d", "i", "t", "i", "o", "n", "e", "r">>
    @@ <<"b", "a", "r", "-", "p", "h", "o", "n", "e">>
         :> <<"B", "a", "r", "-", "P", "h", "o", "n", "e">>
    @@ <<"b", "a", "t", "t", "e", "r", "y">>
         :> <<"B", "a", "t", "t", "e", "r", "y">>
    @@ <<"b", "l", "o", "o", "d", "-", "p", "r", "e", "s", "s", "u", "r", "e", "-", "m", "o", "n", "i", "t", "o", "r">>
         :> <<"B", "l", "o", "o", "d", "-", "P", "r", "e", "s", "s", "u", "r", "e", "-", "M", "o", "n", "i", "t", "o", "r">>
    @@ <<"b", "o", "i", "l", "e", "r">>
         :> <<"B", "o", "i", "l", "e", "r">>
    @@ <<"c", "r", "t", "-", "m", "o", "n", "i", "t", "o", "r">>
         :> <<"C", "R", "T", "-", "M", "o", "n", "i", "t", "o", "r">>
    @@ <<"c", "r", "t", "-", "t", "v">>
         :> <<"C", "R", "T", "-", "T", "V">>
    @@ <<"c", "a", "l", "c", "u", "l", "a", "t", "o", "r">>
         :> <<"C", "a", "l", "c", "u", "l", "a", "t", "o", "r">>
    @@ <<"c", "a", "m", "e", "r", "a">>
         :> <<"C", "a", "m", "e", "r", "a">>
    @@ <<"c", "e", "i", "l", "i", "n", "g", "-", "f", "a", "n">>
         :> <<"C", "e", "i", "l", "i", "n", "g", "-", "F", "a", "n">>
    @@ <<"c", "h", "r", "i", "s", "t", "m", "a", "s", "-", "l", "i", "g", "h", "t", "s">>
         :> <<"C", "h", "r", "i", "s", "t", "m", "a", "s", "-", "L", "i", "g", "h", "t", "s">>
    @@ <<"c", "l", "o", "t", "h", "e", "s", "-", "i", "r", "o", "n">>
         :> <<"C", "l", "o", "t", "h", "e", "s", "-", "I", "r", "o", "n">>
    @@ <<"c", "o", "f", "f", "e", "e", "-", "m", "a", "c", "h", "i", "n", "e">>
         :> <<"C", "o", "f", "f", "e", "e", "-", "M", "a", "c", "h", "i", "n", "e">>
    @@ <<"c", "o", "m", "p", "a", "c", "t", "-", "f", "l", "u", "o", "r", "e", "s", "c", "e", "n", "t", "-", "l", "a", "m", "p", "s">>
         :> <<"C", "o", "m", "p", "a", "c", "t", "-", "F", "l", "u", "o", "r", "e", "s", "c", "e", "n", "t", "-", "L", "a", "m", "p", "s">>
    @@ <<"c", "o", "m", "p", "u", "t", "e", "r", "-", "k", "e", "y", "b", "o", "a", "r", "d">>
         :> <<"C", "o", "m", "p", "u", "t", "e", "r", "-", "K", "e", "y", "b", "o", "a", "r", "d">>
    @@ <<"c", "o", "m", "p", "u", "t", "e", "r", "-", "m", "o", "u", "s", "e">>
         :> <<"C", "o", "m", "p", "u", "t", "e", "r", "-", "M", "o", "u", "s", "e">>
    @@ <<"c", "o", "o", "l", "e", "d", "-", "d", "i", "s", "p", "e", "n", "s", "e", "r">>
         :> <<"C", "o", "o", "l", "e", "d", "-", "D", "i", "s", "p", "e", "n", "s", "e", "r">>
    @@ <<"c", "o", "o", "l", "i", "n", "g", "-", "d", "i", "s", "p", "l", "a", "y">>
         :> <<"C", "o", "o", "l", "i", "n", "g", "-", "D", "i", "s", "p", "l", "a", "y">>
    @@ <<"d", "e", "h", "u", "m", "i", "d", "i", "f", "i", "e", "r">>
         :> <<"D", "e", "h", "u", "m", "i", "d", "i", "f", "i", "e", "r">>
    @@ <<"d", "e", "s", "k", "t", "o", "p", "-", "p", "c">>
         :> <<"D", "e", "s", "k", "t", "o", "p", "-", "P", "C">>
    @@ <<"d", "e", "s", "k", "t", "o", "p">>
         :> <<"D", "e", "s", "k", "t", "o", "p", "-", "P", "C">>
    @@ <<"d", "i", "g", "i", "t", "a", "l", "-", "o", "s", "c", "i", "l", "l", "o", "s", "c", "o", "p", "e">>
         :> <<"D", "i", "g", "i", "t", "a", "l", "-", "O", "s", "c", "i", "l", "l", "o", "s", "c", "o", "p", "e">>
    @@ <<"d", "i", "s", "h", "w", "a", "s", "h", "e", "r">>
         :> <<"D", "i", "s", "h", "w", "a", "s", "h", "e", "r">>
    @@ <<"d", "r", "o", "n", "e">>
         :> <<"D", "r", "o", "n", "e">>
    @@ <<"e", "l", "e", "c", "t", "r", "i", "c", "-", "b", "i", "c", "y", "c", "l", "e">>
         :> <<"E", "l", "e", "c", "t", "r", "i", "c", "-", "B", "i", "c", "y", "c", "l", "e">>
    @@ <<"e", "l", "e", "c", "t", "r", "i", "c", "-", "g", "u", "i", "t", "a", "r">>
         :> <<"E", "l", "e", "c", "t", "r", "i", "c", "-", "G", "u", "i", "t", "a", "r">>
    @@ <<"e", "l", "e", "c", "t", "r", "o", "c", "a", "r", "d", "i", "o", "g", "r", "a", "p", "h", "-", "m", "a", "c", "h", "i", "n", "e">>
         :> <<"E", "l", "e", "c", "t", "r", "o", "c", "a", "r", "d", "i", "o", "g", "r", "a", "p", "h", "-", "M", "a", "c", "h", "i", "n", "e">>
    @@ <<"e", "l", "e", "c", "t", "r", "o", "n", "i", "c", "-", "k", "e", "y", "b", "o", "a", "r", "d">>
         :> <<"E", "l", "e", "c", "t", "r", "o", "n", "i", "c", "-", "K", "e", "y", "b", "o", "a", "r", "d">>
    @@ <<"e", "x", "h", "a", "u", "s", "t", "-", "f", "a", "n">>
         :> <<"E", "x", "h", "a", "u", "s", "t", "-", "F", "a", "n">>
    @@ <<"f", "l", "a", "s", "h", "l", "i", "g", "h", "t">>
         :> <<"F", "l", "a", "s", "h", "l", "i", "g", "h", "t">>
    @@ <<"f", "l", "a", "t", "-", "p", "a", "n", "e", "l", "-", "m", "o", "n", "i", "t", "o", "r">>
         :> <<"F", "l", "a", "t", "-", "P", "a", "n", "e", "l", "-", "M", "o", "n", "i", "t", "o", "r">>
    @@ <<"f", "l", "a", "t", "-", "p", "a", "n", "e", "l", "-", "t", "v">>
         :> <<"F", "l", "a", "t", "-", "P", "a", "n", "e", "l", "-", "T", "V">>
    @@ <<"m", "o", "n", "i", "t", "o", "r">>
         :> <<"F", "l", "a", "t", "-", "P", "a", "n", "e", "l", "-", "M", "o", "n", "i", "t", "o", "r">>
    @@ <<"t", "v">>
         :> <<"F", "l", "a", "t", "-", "P", "a", "n", "e", "l", "-", "T", "V">>
    @@ <<"f", "l", "o", "o", "r", "-", "f", "a", "n">>
         :> <<"F", "l", "o", "o", "r", "-", "F", "a", "n">>
    @@ <<"f", "r", "e", "e", "z", "e", "r">>
         :> <<"F", "r", "e", "e", "z", "e", "r">>
    @@ <<"g", "l", "u", "c", "o", "s", "e", "-", "m", "e", "t", "e", "r">>
         :> <<"G", "l", "u", "c", "o", "s", "e", "-", "M", "e", "t", "e", "r">>
    @@ <<"h", "d", "d">>
         :> <<"H", "D", "D">>
    @@ <<"h", "a", "r", "d", " ", "d", "i", "s", "k">>
         :> <<"H", "D", "D">>
    @@ <<"h", "a", "i", "r", "-", "d", "r", "y", "e", "r">>
         :> <<"H", "a", "i", "r", "-", "D", "r", "y", "e", "r">>
    @@ <<"h", "e", "a", "d", "p", "h", "o", "n", "e">>
         :> <<"H", "e", "a", "d", "p", "h", "o", "n", "e">>
    @@ <<"l", "e", "d", "-", "b", "u", "l", "b">>
         :> <<"L", "E", "D", "-", "B", "u", "l", "b">>
    @@ <<"l", "a", "p", "t", "o", "p">>
         :> <<"L", "a", "p", "t", "o", "p">>
    @@ <<"m", "i", "c", "r", "o", "w", "a", "v", "e">>
         :> <<"M", "i", "c", "r", "o", "w", "a", "v", "e">>
    @@ <<"m", "u", "s", "i", "c", "-", "p", "l", "a", "y", "e", "r">>
         :> <<"M", "u", "s", "i", "c", "-", "P", "l", "a", "y", "e", "r">>
    @@ <<"n", "e", "o", "n", "-", "s", "i", "g", "n">>
         :> <<"N", "e", "o", "n", "-", "S", "i", "g", "n">>
    @@ <<"n", "e", "t", "w", "o", "r", "k", "-", "s", "w", "i", "t", "c", "h">>
         :> <<"N", "e", "t", "w", "o", "r", "k", "-", "S", "w", "i", "t", "c", "h">>
    @@ <<"n", "o", "n", "-", "c", "o", "o", "l", "e", "d", "-", "d", "i", "s", "p", "e", "n", "s", "e", "r">>
         :> <<"N", "o", "n", "-", "C", "o", "o", "l", "e", "d", "-", "D", "i", "s", "p", "e", "n", "s", "e", "r">>
    @@ <<"o", "v", "e", "n">>
         :> <<"O", "v", "e", "n">>
    @@ <<"p", "c", "b">>
         :> <<"P", "C", "B">>
    @@ <<"p", "a", "t", "i", "e", "n", "t", "-", "m", "o", "n", "i", "t", "o", "r", "i", "n", "g", "-", "s", "y", "s", "t", "e", "m">>
         :> <<"P", "a", "t", "i", "e", "n", "t", "-", "M", "o", "n", "i", "t", "o", "r", "i", "n", "g", "-", "S", "y", "s", "t", "e", "m">>
    @@ <<"p", "h", "o", "t", "o", "v", "o", "l", "t", "a", "i", "c", "-", "p", "a", "n", "e", "l">>
         :> <<"P", "h", "o", "t", "o", "v", "o", "l", "t", "a", "i", "c", "-", "P", "a", "n", "e", "l">>
    @@ <<"p", "l", "a", "y", "s", "t", "a", "t", "i", "o", "n", "-", "5">>
         :> <<"P", "l", "a", "y", "S", "t", "a", "t", "i", "o", "n", "-", "5">>
    @@ <<"p", "l", "a", "y", "s", "t", "a", "t", "i", "o", "n">>
         :> <<"P", "l", "a", "y", "S", "t", "a", "t", "i", "o", "n", "-", "5">>
    @@ <<"p", "s", "5">>
         :> <<"P", "l", "a", "y", "S", "t", "a", "t", "i", "o", "n", "-", "5">>
    @@ <<"p", "o", "w", "e", "r", "-", "a", "d", "a", "p", "t", "e", "r">>
         :> <<"P", "o", "w", "e", "r", "-", "A", "d", "a", "p", "t", "e", "r">>
    @@ <<"a", "d", "a", "p", "t", "e", "r">>
         :> <<"P", "o", "w", "e", "r", "-", "A", "d", "a", "p", "t", "e", "r">>
    @@ <<"p", "r", "i", "n", "t", "e", "r">>
         :> <<"P", "r", "i", "n", "t", "e", "r">>
    @@ <<"p", "r", "o", "j", "e", "c", "t", "o", "r">>
         :> <<"P", "r", "o", "j", "e", "c", "t", "o", "r">>
    @@ <<"p", "u", "l", "s", "e", "-", "o", "x", "i", "m", "e", "t", "e", "r">>
         :> <<"P", "u", "l", "s", "e", "-", "O", "x", "i", "m", "e", "t", "e", "r">>
    @@ <<"r", "a", "n", "g", "e", "-", "h", "o", "o", "d">>
         :> <<"R", "a", "n", "g", "e", "-", "H", "o", "o", "d">>
    @@ <<"r", "e", "f", "r", "i", "g", "e", "r", "a", "t", "o", "r">>
         :> <<"R", "e", "f", "r", "i", "g", "e", "r", "a", "t", "o", "r">>
    @@ <<"f", "r", "i", "d", "g", "e">>
         :> <<"R", "e", "f", "r", "i", "g", "e", "r", "a", "t", "o", "r">>
    @@ <<"r", "o", "t", "a", "r", "y", "-", "m", "o", "w", "e", "r">>
         :> <<"R", "o", "t", "a", "r", "y", "-", "M", "o", "w", "e", "r">>
    @@ <<"r", "o", "u", "t", "e", "r">>
         :> <<"R", "o", "u", "t", "e", "r">>
    @@ <<"s", "s", "d">>
         :> <<"S", "S", "D">>
    @@ <<"s", "o", "l", "i", "d", " ", "s", "t", "a", "t", "e", " ", "d", "r", "i", "v", "e">>
         :> <<"S", "S", "D">>
    @@ <<"s", "e", "r", "v", "e", "r">>
         :> <<"S", "e", "r", "v", "e", "r">>
    @@ <<"s", "m", "a", "r", "t", "-", "w", "a", "t", "c", "h">>
         :> <<"S", "m", "a", "r", "t", "-", "W", "a", "t", "c", "h">>
    @@ <<"s", "m", "a", "r", "t", "w", "a", "t", "c", "h">>
         :> <<"S", "m", "a", "r", "t", "-", "W", "a", "t", "c", "h">>
    @@ <<"s", "m", "a", "r", "t", "p", "h", "o", "n", "e">>
         :> <<"S", "m", "a", "r", "t", "p", "h", "o", "n", "e">>
    @@ <<"p", "h", "o", "n", "e">>
         :> <<"S", "m", "a", "r", "t", "p", "h", "o", "n", "e">>
    @@ <<"s", "m", "o", "k", "e", "-", "d", "e", "t", "e", "c", "t", "o", "r">>
         :> <<"S", "m", "o", "k", "e", "-", "D", "e", "t", "e", "c", "t", "o", "r">>
    @@ <<"s", "o", "l", "d", "e", "r", "i", "n", "g", "-", "i", "r", "o", "n">>
         :> <<"S", "o", "l", "d", "e", "r", "i", "n", "g", "-", "I", "r", "o", "n">>
    @@ <<"s", "p", "e", "a", "k", "e", "r">>
         :> <<"S", "p", "e", "a", "k", "e", "r">>
    @@ <<"s", "t", "o", "v", "e">>
         :> <<"S", "t", "o", "v", "e">>
    @@ <<"s", "t", "r", "a", "i", "g", "h", "t", "-", "t", "u", "b", "e", "-", "f", "l", "u", "o", "r", "e", "s", "c", "e", "n", "t", "-", "l", "a", "m", "p">>
         :> <<"S", "t", "r", "a", "i", "g", "h", "t", "-", "T", "u", "b", "e", "-", "F", "l", "u", "o", "r", "e", "s", "c", "e", "n", "t", "-", "L", "a", "m", "p">>
    @@ <<"s", "t", "r", "e", "e", "t", "-", "l", "a", "m", "p">>
         :> <<"S", "t", "r", "e", "e", "t", "-", "L", "a", "m", "p">>
    @@ <<"t", "v", "-", "r", "e", "m", "o", "t", "e", "-", "c", "o", "n", "t", "r", "o", "l">>
         :> <<"T", "V", "-", "R", "e", "m", "o", "t", "e", "-", "C", "o", "n", "t", "r", "o", "l">>
    @@ <<"r", "e", "m", "o", "t", "e">>
         :> <<"T", "V", "-", "R", "e", "m", "o", "t", "e", "-", "C", "o", "n", "t", "r", "o", "l">>
    @@ <<"t", "a", "b", "l", "e", "-", "l", "a", "m", "p">>
         :> <<"T", "a", "b", "l", "e", "-", "L", "a", "m", "p">>
    @@ <<"t", "a", "b", "l", "e", "t">>
         :> <<"T", "a", "b", "l", "e", "t">>
    @@ <<"t", "e", "l", "e", "p", "h", "o", "n", "e", "-", "s", "e", "t">>
         :> <<"T", "e", "l", "e", "p", "h", "o", "n", "e", "-", "S", "e", "t">>
    @@ <<"t", "o", "a", "s", "t", "e", "r">>
         :> <<"T", "o", "a", "s", "t", "e", "r">>
    @@ <<"t", "u", "m", "b", "l", "e", "-", "d", "r", "y", "e", "r">>
         :> <<"T", "u", "m", "b", "l", "e", "-", "D", "r", "y", "e", "r">>
    @@ <<"d", "r", "y", "e", "r">>
         :> <<"T", "u", "m", "b", "l", "e", "-", "D", "r", "y", "e", "r">>
    @@ <<"u", "s", "b", "-", "f", "l", "a", "s", "h", "-", "d", "r", "i", "v", "e">>
         :> <<"U", "S", "B", "-", "F", "l", "a", "s", "h", "-", "D", "r", "i", "v", "e">>
    @@ <<"u", "s", "b">>
         :> <<"U", "S", "B", "-", "F", "l", "a", "s", "h", "-", "D", "r", "i", "v", "e">>
    @@ <<"v", "a", "c", "u", "u", "m", "-", "c", "l", "e", "a", "n", "e", "r">>
         :> <<"V", "a", "c", "u", "u", "m", "-", "C", "l", "e", "a", "n", "e", "r">>
    @@ <<"w", "a", "s", "h", "i", "n", "g", "-", "m", "a", "c", "h", "i", "n", "e">>
         :> <<"W", "a", "s", "h", "i", "n", "g", "-", "M", "a", "c", "h", "i", "n", "e">>
    @@ <<"w", "a", "s", "h", "e", "r">>
         :> <<"W", "a", "s", "h", "i", "n", "g", "-", "M", "a", "c", "h", "i", "n", "e">>
    @@ <<"x", "b", "o", "x", "-", "s", "e", "r", "i", "e", "s", "-", "x">>
         :> <<"X", "b", "o", "x", "-", "S", "e", "r", "i", "e", "s", "-", "X">>
    @@ <<"x", "b", "o", "x">>
         :> <<"X", "b", "o", "x", "-", "S", "e", "r", "i", "e", "s", "-", "X">>

LAPTOP_CLASS == <<"L", "a", "p", "t", "o", "p">>
SMARTPHONE_CLASS == <<"S", "m", "a", "r", "t", "p", "h", "o", "n", "e">>
COMPUTER_MOUSE_CLASS ==
    <<"C", "o", "m", "p", "u", "t", "e", "r", "-", "M", "o", "u", "s", "e">>
BATTERY_CLASS == <<"B", "a", "t", "t", "e", "r", "y">>
FLAT_PANEL_MONITOR_CLASS ==
    <<"F", "l", "a", "t", "-", "P", "a", "n", "e", "l", "-", "M", "o", "n", "i", "t", "o", "r">>

\* One entry of a predictions list; confidence in hundredths.
Prediction(class, confidence) == [class |-> class, confidence |-> confidence]

\* A result dict: the image size it reports and, when it has the key, its
\* predictions list.  (The bounding box and the time stamp of the offline
\* result are read by nothing and are left out.)
Result(width, height, predictions) ==
    [width |-> width, height |-> height, has_predictions |-> TRUE,
     predictions |-> predictions]

\* An uploaded image as the heuristic sees it:
\*   readable  Image.open succeeds
\*   mode      the PIL mode; pixel is getdata()[0] of the image resized to
\*             1x1, one value per band of that mode
\*   path      the keywords that image_path.lower() contains
Image(readable, mode, width, height, pixel, path) ==
    [readable |-> readable, mode |-> mode, width |-> width, height |-> height,
     pixel |-> pixel, path |-> path]

RECURSIVE SeqSum(_)
SeqSum(s) == IF s = <<>> THEN 0 ELSE Head(s) + SeqSum(Tail(s))

\* api.generate_mock_results.  The aspect ratio width / height is compared
\* with 0.9, 1.1, 1.5 and 0.7 as the fractions they round from (for image
\* sizes the float quotient and the literal round alike).  Anything that
\* raises inside the try (Image.open on an unreadable file, list() of the
\* single number that a one-band image gives as its pixel) ends in the
\* except: Laptop, 0.85, 640 x 480.
generate_mock_results(image) ==
    LET pixel_data == IF image.mode = "RGBA" THEN SubSeq(image.pixel, 1, 3)
                      ELSE image.pixel
        dark == SeqSum(pixel_data) < 100 * Len(pixel_data)
        w == image.width
        h == image.height
        by_shape ==
            IF 9 * h < 10 * w /\ 10 * w < 11 * h
              THEN IF dark THEN Prediction(COMPUTER_MOUSE_CLASS, 85)
                   ELSE Prediction(BATTERY_CLASS, 88)
            ELSE IF 2 * w > 3 * h THEN Prediction(LAPTOP_CLASS, 94)
            ELSE IF 10 * w < 7 * h THEN Prediction(SMARTPHONE_CLASS, 91)
            ELSE IF w > 1000 /\ h > 800 THEN Prediction(FLAT_PANEL_MONITOR_CLASS, 89)
            ELSE Prediction(LAPTOP_CLASS, 92)
        by_path ==
            IF "laptop" \in image.path THEN Prediction(LAPTOP_CLASS, 97)
            ELSE IF "phone" \in image.path \/ "smartphone" \in image.path
              THEN Prediction(SMARTPHONE_CLASS, 96)
            ELSE IF "monitor" \in image.path \/ "display" \in image.path
              THEN Prediction(FLAT_PANEL_MONITOR_CLASS, 95)
            ELSE by_shape
    IN  IF ~image.readable \/ Len(image.pixel) = 1
          THEN Result(640, 480, <<Prediction(LAPTOP_CLASS, 85)>>)
        ELSE Result(w, h, <<by_path>>)

\* What CLIENT.infer does for one call: it raises, or it returns the parsed
\* body of the service's answer.
Raises == [raises |-> TRUE, result |-> Result(0, 0, <<>>)]
Returns(result) == [raises |-> FALSE, result |-> result]

\* a body without a 'predictions' key
NoPredictionsKey ==
    [width |-> 0, height |-> 0, has_predictions |-> FALSE, predictions |-> <<>>]

\* api.classify_image
classify_image(HAS_API_KEY, service, image) ==
    IF HAS_API_KEY
    THEN IF service.raises THEN generate_mock_results(image)
         ELSE service.result
    ELSE generate_mock_results(image)

RECURSIVE best_of(_)
\* max(detected_items, key=lambda x: x.get('confidence', 0)): the first of
\* the items with the highest confidence
best_of(detected_items) ==
    IF Len(detected_items) = 1 THEN detected_items[1]
    ELSE LET rest == best_of(Tail(detected_items))
         IN  IF Head(detected_items).confidence >= rest.confidence
             THEN Head(detected_items) ELSE rest

\* The body of classify and of api_classify from the call of classify_image
\* on, for a POST that carries an image; table is the endpoint's
\* class_to_type.  The request's inputs are kept with the answer.
Classified(endpoint, table, HAS_API_KEY, service, image) ==
    LET result == classify_image(HAS_API_KEY, service, image)
        detected_items == IF result.has_predictions THEN result.predictions ELSE <<>>
        best_match == best_of(detected_items)
        detected_class == best_match.class
        detected_class_lower == lower(detected_class)
        answer == [endpoint |-> endpoint, HAS_API_KEY |-> HAS_API_KEY,
                   service |-> service, image |-> image, result |-> result]
    IN  IF detected_items = <<>>
          THEN answer @@ [status |-> 400, ewaste_type |-> <<>>, confidence |-> 0]
        ELSE answer @@ [status |-> 200,
                        ewaste_type |-> Get(table, detected_class_lower, detected_class),
                        confidence |-> best_match.confidence]

\* class labels the service answers with
ServiceClasses ==
    {<<"L", "a", "p", "t", "o", "p">>,
     <<"L", "A", "P", "T", "O", "P">>,
     <<"F", "r", "i", "d", "g", "e">>,
     <<"p", "s", "5">>,
     <<"X", "b", "o", "x">>,
     <<"m", "o", "b", "i", "l", "e">>,
     <<"H", "a", "r", "d", " ", "D", "i", "s", "k">>,
     <<"G", "i", "z", "m", "o">>}

ServiceOutcomes ==
    {Raises, Returns(NoPredictionsKey), Returns(Result(640, 480, <<>>))}
    \cup {Returns(Result(640, 480, <<Prediction(c, 90)>>)) : c \in ServiceClasses}
    \cup {Returns(Result(640, 480, <<Prediction(<<"G", "i", "z", "m", "o">>, 40),
                                     Prediction(<<"p", "s", "5">>, 80),
                                     Prediction(<<"X", "b", "o", "x">>, 80)>>))}

Images ==
    {Image(TRUE, "RGB", 200, 100, <<200, 200, 200>>, {}),
     Image(TRUE, "L", 200, 100, <<120>>, {}),
     Image(TRUE, "RGB", 100, 100, <<10, 20, 30>>, {}),
     Image(TRUE, "RGBA", 100, 100, <<90, 90, 90, 255>>, {}),
     Image(TRUE, "RGB", 100, 100, <<100, 100, 100>>, {}),
     Image(TRUE, "RGB", 100, 200, <<50, 50, 50>>, {}),
     Image(TRUE, "RGB", 1200, 900, <<50, 50, 50>>, {}),
     Image(TRUE, "RGB", 800, 600, <<50, 50, 50>>, {}),
     Image(TRUE, "RGB", 90, 100, <<50, 50, 50>>, {}),
     Image(TRUE, "RGB", 100, 200, <<50, 50, 50>>, {"laptop"}),
     Image(TRUE, "RGB", 200, 100, <<50, 50, 50>>, {"phone", "smartphone", "laptop"}),
     Image(TRUE, "RGB", 200, 100, <<50, 50, 50>>, {"phone"}),
     Image(TRUE, "RGB", 200, 100, <<50, 50, 50>>, {"display"}),
     Image(TRUE, "RGB", 100, 100, <<50, 50, 50>>, {"monitor", "phone"}),
     Image(FALSE, "", 0, 0, <<>>, {})}

\* POST /classify of a logged-in user with an image
classify(HAS_API_KEY, service, image) ==
    /\ resp = NoResponse
    /\ resp' = Classified("classify", classify_class_to_type, HAS_API_KEY, service, image)
    /\ UNCHANGED <<stored, session_eco_points, req, next_id, started, nrows, val,
                   certificate, rewards>>

\* POST /api/classify with an image
api_classify(HAS_API_KEY, service, image) ==
    /\ resp = NoResponse
    /\ resp' = Classified("api_classify", api_classify_class_to_type, HAS_API_KEY,
                          service, image)
    /\ UNCHANGED <<stored, session_eco_points, req, next_id, started, nrows, val,
                   certificate, rewards>>

NextClassify ==
    \E HAS_API_KEY \in BOOLEAN, service \in ServiceOutcomes, image \in Images :
        \/ classify(HAS_API_KEY, service, image)
        \/ api_classify(HAS_API_KEY, service, image)

SpecClassify == Init /\ [][NextClassify]_vars

(***************************************************************************)
(* The administrator's side of a bulk pickup and its certificate.         *)
(***************************************************************************)
\* member names of models.BulkPickupStatus
BulkPickupStatus == {"PENDING", "SCHEDULED", "COLLECTED", "VERIFIED", "CANCELLED"}

\* names that hasattr(BulkPickupStatus, name) accepts although they are no
\* member: BulkPickupStatus[name] raises KeyError
NonMemberAttributes == {"__members__"}

\* a form field that was not sent, among fields that carry a label
NoLabel == [t |-> "nokey", s |-> "", n |-> 0]

\* BulkEwasteItem.query.filter_by(bulk_pickup_id=pickup_id).all()
items_of(pickup_id) ==
    SelectSeq(bulk_ewaste_items, LAMBDA item : item.bulk_pickup_id = pickup_id)

RECURSIVE quantity_sum(_)
\* sum(item.quantity for item in items)
quantity_sum(items) ==
    IF items = <<>> THEN 0 ELSE Head(items).quantity + quantity_sum(Tail(items))

\* (a certificate that counts every line item as one device)
certificate_per_row(bulk_pickup, items) ==
    [bulk_pickup_id |-> bulk_pickup.id,
     status |-> bulk_pickup.status,
     total_carbon_saved |-> carbon_sum_per_row(items),
     total_items |-> quantity_sum(items),
     total_eco_points |-> IF bulk_pickup.actual_eco_points # 0
                          THEN bulk_pickup.actual_eco_points
                          ELSE bulk_pickup.estimated_eco_points]

\* What utils.generate_bulk_disposal_certificate computes from the pickup
\* and its items and prints on the certificate (the status is that of the
\* pickup object it is handed).
generate_bulk_disposal_certificate(bulk_pickup, items) ==
    [bulk_pickup_id |-> bulk_pickup.id,
     status |-> bulk_pickup.status,
     total_carbon_saved |-> carbon_sum(items),
     total_items |-> quantity_sum(items),
     total_eco_points |-> IF bulk_pickup.actual_eco_points # 0
                          THEN bulk_pickup.actual_eco_points
                          ELSE bulk_pickup.estimated_eco_points]

\* certificate files written for one pickup over a run
MaxCertificates == 2

\* static/certificates/bulk_certificate_<pickup_id>_<timestamp>.pdf, the
\* file the update handler writes the certificate to, as its two variable
\* parts; a pickup without a stored certificate has the empty path.  The
\* timestamp is counted per pickup: a pickup's next file is written at
\* least two requests after its last one, at a later time.
CertificateFile(pickup_id, timestamp) == <<pickup_id, timestamp>>

timestamp_of(certificate_path) ==
    IF certificate_path = <<>> THEN 0 ELSE certificate_path[2]

\* POST /admin/bulk-pickups/<pickup_id>/update of a logged-in admin for the
\* p-th stored pickup.  status, assigned_team and actual_eco_points are the
\* form's cells (the first two as labels); generated says whether building
\* and writing the PDF goes through.
admin_update_bulk_pickup(p, status, assigned_team, actual_eco_points, generated) ==
    LET bulk_pickup == bulk_pickups[p]
        old_status == bulk_pickup.status
        new_status == IF status.t = "str" /\ status.s \in BulkPickupStatus
                      THEN status.s ELSE old_status
        parsed == int_of_str(actual_eco_points.s)
        updated == [bulk_pickup EXCEPT
                      !.status = new_status,
                      !.assigned_team = IF assigned_team.t = "str" THEN assigned_team.s
                                        ELSE @,
                      !.actual_eco_points = IF actual_eco_points.t = "str"
                                               /\ actual_eco_points.s # <<>> /\ parsed.ok
                                            THEN parsed.val ELSE @]
        certify == old_status # "COLLECTED" /\ new_status = "COLLECTED"
                     /\ bulk_pickup.request_certificate
        timestamp == timestamp_of(bulk_pickup.certificate_path) + 1
    IN  /\ p \in 1..Len(bulk_pickups)
        /\ (certify /\ generated) => timestamp <= MaxCertificates
        /\ IF status.t = "str" /\ status.s \in NonMemberAttributes
             THEN UNCHANGED <<bulk_pickups, certificate>>       \* KeyError, no commit
           ELSE IF certify /\ generated
             THEN /\ certificate' = generate_bulk_disposal_certificate(
                                       updated, items_of(bulk_pickup.id))
                  /\ bulk_pickups' = [bulk_pickups EXCEPT
                                        ![p] = [updated EXCEPT !.certificate_path =
                                                  CertificateFile(bulk_pickup.id, timestamp)]]
           ELSE /\ bulk_pickups' = [bulk_pickups EXCEPT ![p] = updated]
                /\ UNCHANGED certificate
        /\ UNCHANGED <<users_row, bulk_ewaste_items, ewaste, schedule_rows,
                       session_eco_points, req, next_id, started, nrows, val, resp,
                       rewards>>

\* GET /admin/bulk-pickups/<pickup_id>/certificate of a logged-in admin.
\* exists: the stored certificate file is still there; generated as above.
admin_bulk_certificate(p, exists, generated) ==
    LET bulk_pickup == bulk_pickups[p]
    IN  /\ p \in 1..Len(bulk_pickups)
        /\ IF (bulk_pickup.certificate_path # <<>> /\ exists) \/ ~generated
             THEN UNCHANGED certificate
           ELSE certificate' = generate_bulk_disposal_certificate(
                                   bulk_pickup, items_of(bulk_pickup.id))
        /\ UNCHANGED <<stored, session_eco_points, req, next_id, started, nrows, val,
                       resp, rewards>>

\* GET /bulk-certificate/<bulk_pickup_id> of the pickup's owner or an admin.
download_bulk_certificate(p, generated) ==
    LET bulk_pickup == bulk_pickups[p]
    IN  /\ p \in 1..Len(bulk_pickups)
        /\ bulk_pickup.status = "COLLECTED"
        /\ IF generated
             THEN certificate' = generate_bulk_disposal_certificate(
                                   bulk_pickup, items_of(bulk_pickup.id))
           ELSE UNCHANGED certificate
        /\ UNCHANGED <<stored, session_eco_points, req, next_id, started, nrows, val,
                       resp, rewards>>

\* rows of the submissions the administrator then works on
AdminRows ==
    {Row(Label("Laptop"), Str(<<"2">>), Str(WORKING)),
     Row(Label("Gadget"), Str(<<"0">>), Str(SCRAP))}

AdminCsvRows ==
    {Row(Label("Refrigerator"), Str(<<"-", "1">>), Str(<<"D", "a", "m", "a", "g", "e", "d">>))}

StatusCells ==
    {NoLabel, Label("COLLECTED"), Label("VERIFIED"), Label("Collected"),
     Label("__members__")}

\* One submission, and the administrator's requests once it is committed.
NextAdmin ==
    \/ \E request_certificate \in BOOLEAN :
          req[1].pc = "idle" /\ Begin(1, request_certificate)
    \/ \E row \in AdminRows : InlineRow(1, row)
    \/ \E kind \in {"none", "csv"} : InlineEnd(1, kind)
    \/ \E row \in AdminCsvRows : FileRow(1, row)
    \/ FileEnd(1)
    \/ Commit(1)
    \/ \E p \in 1..Len(bulk_pickups), status \in StatusCells,
          assigned_team \in {NoLabel, Label("Team A")},
          actual_eco_points \in {NoKey, Str(<<"7">>)}, generated \in BOOLEAN :
          admin_update_bulk_pickup(p, status, assigned_team, actual_eco_points, generated)
    \/ \E p \in 1..Len(bulk_pickups), exists \in BOOLEAN, generated \in BOOLEAN :
          admin_bulk_certificate(p, exists, generated)
    \/ \E p \in 1..Len(bulk_pickups), generated \in BOOLEAN :
          download_bulk_certificate(p, generated)

SpecAdmin == Init /\ [][NextAdmin]_vars

(***************************************************************************)
(* The same submission made twice.  Slot 1 carries a first submission,    *)
(* drawn from the input sets; when it is over, slot 2 carries a second    *)
(* one that is handed the first one's rows and file again, in the same    *)
(* order.  Individual pickups may be scheduled in between.                *)
(***************************************************************************)
\* The next row the first submission was handed is handed to slot r: a
\* pass of the inline loop, or of the loop over the file's rows.
ResubmitRow(r) ==
    LET k == Len(req[r].log) + 1
        entry == req[1].log[k]
        l == CASE entry.source = "inline" -> inline_row(req[r], entry.row)
               [] entry.source = "csv" -> csv_row(req[r], entry.row)
               [] OTHER -> xlsx_row(req[r], entry.row)
    IN  /\ k <= Len(req[1].log)
        /\ IF req[r].pc = "inline" THEN entry.source = "inline"
           ELSE req[r].pc = "file" /\ entry.source = req[r].file
        /\ IF l.log[k].result = "aborted"
           THEN /\ req' = [req EXCEPT ![r] = [l EXCEPT !.pc = "failed"]]
                /\ Rollback(r)
           ELSE /\ req' = [req EXCEPT ![r] = l]
                /\ UNCHANGED stored
        /\ UNCHANGED <<session_eco_points, next_id, started, nrows, val, resp,
                       certificate, rewards>>

\* the inline rows of the first submission have all been handed over
inline_rows_done(r) ==
    LET k == Len(req[r].log) + 1
    IN  IF k > Len(req[1].log) THEN TRUE ELSE req[1].log[k].source # "inline"

first_over == req[1].pc \in {"committed", "failed"}

NextResubmit ==
    \/ req[1].pc = "idle" /\ Begin(1, TRUE)
    \/ \E row \in InlineRows : InlineRow(1, row)
    \/ \E kind \in {"none", "csv", "xlsx"} : InlineEnd(1, kind)
    \/ \E row \in CsvRows : req[1].file = "csv" /\ FileRow(1, row)
    \/ \E row \in XlsxRows : req[1].file = "xlsx" /\ FileRow(1, row)
    \/ FileEnd(1)
    \/ Commit(1)
    \/ \E in \in ScheduleInputs :
          /\ \A r \in Slots : req[r].pc \notin InFlight
          /\ Schedule(in[1], in[2])
    \/ first_over /\ req[2].pc = "idle" /\ Begin(2, TRUE)
    \/ ResubmitRow(2)
    \/ inline_rows_done(2) /\ InlineEnd(2, req[1].file)
    \/ Len(req[2].log) = Len(req[1].log) /\ FileEnd(2)
    \/ Commit(2)

SpecResubmit == Init /\ [][NextResubmit]_vars

(***************************************************************************)
(* redeem_reward.  The request reads the user and the reward into its own *)
(* session, checks them, and later commits what it computed from the      *)
(* values it read: the UPDATEs carry the new values of the columns it     *)
(* changed.                                                               *)
(***************************************************************************)
\* most points a user starts with, and most units a reward starts with
MaxPoints == 4
MaxStock == 2

\* points_required of the rewards on offer
PointsRequired == {2, 3}

\* Redemption(user_id, reward_id, points_spent, status='Pending')
Redemption(points_spent) == [points_spent |-> points_spent, status |-> "Pending"]

RedeemInFlight == {"checked"}

\* (checks that refuse a reward only when its stock is below zero)
RedeemChecksLax(r) ==
    /\ redeem[r].pc \notin RedeemInFlight
    /\ redeem' = [redeem EXCEPT ![r] =
                    [pc |-> IF ~rewards_row.active THEN "rejected"
                            ELSE IF rewards_row.stock < 0 THEN "rejected"
                            ELSE IF users_row.eco_points < rewards_row.points_required
                              THEN "rejected"
                            ELSE "checked",
                     eco_points |-> users_row.eco_points,
                     stock |-> rewards_row.stock,
                     points_required |-> rewards_row.points_required]]
    /\ UNCHANGED <<stored, session_eco_points, req, next_id, started, nrows, val,
                   resp, certificate, rewards_row, redemptions>>

\* POST /redeem/<reward_id> up to the end of the checks: an inactive reward,
\* one out of stock, or too few points are refused with a message.
RedeemChecks(r) ==
    /\ redeem[r].pc \notin RedeemInFlight
    /\ redeem' = [redeem EXCEPT ![r] =
                    [pc |-> IF ~rewards_row.active THEN "rejected"
                            ELSE IF rewards_row.stock <= 0 THEN "rejected"
                            ELSE IF users_row.eco_points < rewards_row.points_required
                              THEN "rejected"
                            ELSE "checked",
                     eco_points |-> users_row.eco_points,
                     stock |-> rewards_row.stock,
                     points_required |-> rewards_row.points_required]]
    /\ UNCHANGED <<stored, session_eco_points, req, next_id, started, nrows, val,
                   resp, certificate, rewards_row, redemptions>>

\* (a commit whose UPDATEs subtract from the stored values)
RedeemCommitRelative(r) ==
    /\ redeem[r].pc = "checked"
    /\ redemptions' = Append(redemptions, Redemption(redeem[r].points_required))
    /\ users_row' = [users_row EXCEPT
                       !.eco_points = @ - redeem[r].points_required]
    /\ rewards_row' = [rewards_row EXCEPT !.stock = @ - 1]
    /\ session_eco_points' = users_row.eco_points - redeem[r].points_required
    /\ redeem' = [redeem EXCEPT ![r].pc = "done"]
    /\ UNCHANGED <<bulk_pickups, bulk_ewaste_items, ewaste, schedule_rows, req,
                   next_id, started, nrows, val, resp, certificate>>

\* The redemption: user.eco_points -= points_required and reward.stock -= 1
\* on the objects this request read, the Redemption added, the commit, and
\* the navbar value refreshed.
RedeemCommit(r) ==
    /\ redeem[r].pc = "checked"
    /\ redemptions' = Append(redemptions, Redemption(redeem[r].points_required))
    /\ users_row' = [users_row EXCEPT
                       !.eco_points = redeem[r].eco_points - redeem[r].points_required]
    /\ rewards_row' = [rewards_row EXCEPT !.stock = redeem[r].stock - 1]
    /\ session_eco_points' = redeem[r].eco_points - redeem[r].points_required
    /\ redeem' = [redeem EXCEPT ![r].pc = "done"]
    /\ UNCHANGED <<bulk_pickups, bulk_ewaste_items, ewaste, schedule_rows, req,
                   next_id, started, nrows, val, resp, certificate>>

\* The same, but the commit fails: db.session.rollback().
RedeemCommitFail(r) ==
    /\ redeem[r].pc = "checked"
    /\ redeem' = [redeem EXCEPT ![r].pc = "failed"]
    /\ UNCHANGED <<stored, session_eco_points, req, next_id, started, nrows, val,
                   resp, certificate, rewards_row, redemptions>>

\* A user who has earned some points, and a reward on offer.
InitRedeem ==
    /\ \E eco_points \in 0..MaxPoints :
          /\ users_row = [eco_points |-> eco_points, carbon_saved |-> 0]
          /\ session_eco_points = eco_points
    /\ \E points_required \in PointsRequired, stock \in 0..MaxStock, active \in BOOLEAN :
          rewards_row = Reward(points_required, stock, active)
    /\ bulk_pickups = <<>>
    /\ bulk_ewaste_items = <<>>
    /\ ewaste = <<>>
    /\ schedule_rows = <<>>
    /\ req = [r \in Slots |-> Idle]
    /\ next_id = 1
    /\ started = 0
    /\ nrows = 0
    /\ val = NoValuation
    /\ resp = NoResponse
    /\ certificate = NoCertificate
    /\ redemptions = <<>>
    /\ redeem = [r \in Slots |-> NoRedeem]

\* Redemptions handled one after another: slot 1 only.
NextRedeem ==
    \/ RedeemChecks(1)
    \/ RedeemCommit(1)
    \/ RedeemCommitFail(1)

SpecRedeem == InitRedeem /\ [][NextRedeem]_vars

\* Two redemptions that overlap.
NextRedeemOverlap ==
    \E r \in Slots :
       \/ RedeemChecks(r)
       \/ RedeemCommit(r)
       \/ RedeemCommitFail(r)

SpecRedeemOverlap == InitRedeem /\ [][NextRedeemOverlap]_vars

(***************************************************************************)
(* The administrator's side of an individual pickup.                       *)
(***************************************************************************)
\* updates of one schedule row over a run
MaxUpdates == 2

\* POST /admin/pickups/<pickup_id>/update of a logged-in admin for the k-th
\* schedule row, with the form's status: the status is committed, and when
\* it went from another value to Collected the device's carbon saving is
\* added to the user's carbon_saved and committed.
admin_update_pickup(k, status) ==
    LET pickup == schedule_rows[k]
        new_status == status.s
        was_status_changed_to_collected ==
            pickup.status # "Collected" /\ new_status = "Collected"
        carbon_saved == calculate_carbon_footprint(ewaste[pickup.ewaste_id].ewaste_type, 1)
    IN  /\ k \in 1..Len(schedule_rows)
        /\ pickup.updated_at < MaxUpdates
        /\ IF status.t = "str" /\ new_status \in {"Pending", "Collected"}
           THEN /\ schedule_rows' = [schedule_rows EXCEPT
                                       ![k].status = new_status,
                                       ![k].updated_at = @ + 1]
                /\ users_row' = IF was_status_changed_to_collected
                                THEN [users_row EXCEPT !.carbon_saved = @ + carbon_saved]
                                ELSE users_row
           ELSE UNCHANGED <<schedule_rows, users_row>>      \* 'Invalid status.'
        /\ UNCHANGED <<bulk_pickups, bulk_ewaste_items, ewaste, session_eco_points,
                       req, next_id, started, nrows, val, resp, certificate, rewards>>

\* what the schedule form carries in the specification of one pickup's life
PickupInputs ==
    {"Laptop", "Refrigerator", "Dehumidifier", "Smartphone", "LED-Bulb", "Gadget"}
      \X {"Excellent", "Good", "Fair", "Poor", "Broken"}

PickupStatusCells ==
    {NoLabel, Label("Pending"), Label("Collected"), Label("Cancelled"),
     Label("COLLECTED")}

\* Individual pickups and the administrator's updates of them.
NextPickup ==
    \/ \E in \in PickupInputs : Schedule(in[1], in[2])
    \/ \E k \in 1..Len(schedule_rows), status \in PickupStatusCells :
          admin_update_pickup(k, status)

SpecPickup == Init /\ [][NextPickup]_vars

(***************************************************************************)
(* Properties.                                                             *)
(***************************************************************************)
Accepted(l) == {k \in 1..Len(l.log) : l.log[k].result = "accepted"}

RECURSIVE SumOver(_, _)
\* the sum of f[k] over the finite set S of indices
SumOver(S, f) ==
    IF S = {} THEN 0
    ELSE LET k == CHOOSE x \in S : TRUE IN f[k] + SumOver(S \ {k}, f)

ItemsOf(id) == {k \in 1..Len(bulk_ewaste_items) : bulk_ewaste_items[k].bulk_pickup_id = id}

PickupIds == {bulk_pickups[k].id : k \in 1..Len(bulk_pickups)}

\* C1: a row of a bulk submission that raises is skipped on its own; it
\* never ends the handling of the other rows or fails the submission.
C1_RowFailureNeverAborts ==
    \A r \in Slots : \A k \in 1..Len(req[r].log) : req[r].log[k].result # "aborted"

\* C2: a bulk submission is all-or-nothing.  A step in which a submission
\* fails leaves the store as it was and nothing of the batch in it; a step
\* in which it succeeds writes the pickup with its totals, all accepted rows
\* and the user's counters together; no other step of a submission writes.
C2_AllOrNothing ==
    [][\A r \in Slots :
          /\ (req'[r] # req[r] /\ req'[r].pc = "failed")
                => /\ stored' = stored
                   /\ req'[r].id \notin PickupIds
                   /\ ItemsOf(req'[r].id) = {}
          /\ (req'[r] # req[r] /\ req'[r].pc = "committed")
                => /\ bulk_pickups' = Append(bulk_pickups,
                                             [id |-> req[r].id,
                                              total_items |-> req[r].total_items,
                                              estimated_eco_points |-> req[r].total_eco_points,
                                              status |-> "PENDING",
                                              request_certificate |-> req[r].request_certificate,
                                              certificate_path |-> <<>>,
                                              actual_eco_points |-> 0,
                                              assigned_team |-> ""])
                   /\ bulk_ewaste_items' = bulk_ewaste_items \o req[r].items
                   /\ users_row'.eco_points = req[r].user.eco_points + req[r].total_eco_points
                   /\ Len(req[r].items) = Cardinality(Accepted(req[r]))
          /\ (req'[r] # req[r] /\ req'[r].pc \in InFlight) => stored' = stored
      ]_vars

\* C2 witness: a submission failed after rows had been added to its
\* session, and nothing of it is stored.
C2_Witness ==
    \E r \in Slots :
        /\ req[r].pc = "failed"
        /\ req[r].items # <<>>
        /\ req[r].id \notin PickupIds
        /\ ItemsOf(req[r].id) = {}

\* C3: the commit of a bulk submission raises the user's eco_points by the
\* sum of eco_points_per_unit * quantity and carbon_saved by the sum of
\* carbon per unit * quantity over the accepted rows of all sources, and no
\* earlier step of the submission touches the counters.
C3_CountersUpdatedOnce ==
    [][\A r \in Slots :
          /\ (req[r].pc = "finish" /\ req'[r].pc = "committed")
                => LET l == req[r]
                       points == [k \in Accepted(l) |->
                                    l.log[k].item.eco_points_per_unit * l.log[k].item.quantity]
                       carbon == [k \in Accepted(l) |->
                                    Get(carbon_savings, l.log[k].item.ewaste_type, 40)
                                      * l.log[k].item.quantity]
                   IN  /\ users_row'.eco_points
                            = users_row.eco_points + SumOver(Accepted(l), points)
                       /\ users_row'.carbon_saved
                            = users_row.carbon_saved + SumOver(Accepted(l), carbon)
          /\ (req[r].pc \in InFlight /\ req'[r].pc \in InFlight) => users_row' = users_row
      ]_vars

\* C3 witness: a committed submission with an accepted inline row and an
\* accepted file row, one of them of more than one unit.
C3_Witness ==
    \E r \in Slots :
        /\ req[r].pc = "committed"
        /\ \E j, k \in Accepted(req[r]) :
              /\ req[r].log[j].source = "inline"
              /\ req[r].log[k].source \in {"csv", "xlsx"}
              /\ req[r].log[j].item.quantity + req[r].log[k].item.quantity > 2
        /\ users_row.eco_points > 0
        /\ users_row.carbon_saved > 0

\* C4: every stored bulk pickup's total_items is the sum of quantity, and
\* its estimated_eco_points the sum of eco_points_per_unit * quantity, over
\* the stored items of that pickup.
C4_TotalsMatchItems ==
    \A p \in 1..Len(bulk_pickups) :
        LET S == ItemsOf(bulk_pickups[p].id)
            quantity == [k \in S |-> bulk_ewaste_items[k].quantity]
            points == [k \in S |-> bulk_ewaste_items[k].eco_points_per_unit
                                     * bulk_ewaste_items[k].quantity]
        IN  /\ bulk_pickups[p].total_items = SumOver(S, quantity)
            /\ bulk_pickups[p].estimated_eco_points = SumOver(S, points)

\* C4 witness: a stored pickup with a stored item whose submission also had
\* a row that was skipped.
C4_Witness ==
    \E r \in Slots :
        /\ req[r].pc = "committed"
        /\ ItemsOf(req[r].id) # {}
        /\ \E k \in 1..Len(req[r].log) : req[r].log[k].result = "skipped"

\* C5: every stored bulk item has quantity >= 1.
C5_QuantityAtLeastOne ==
    \A k \in 1..Len(bulk_ewaste_items) : bulk_ewaste_items[k].quantity >= 1

NonNumeric(cell) == cell.t = "str" /\ ~int_of_str(cell.s).ok

\* C6: in a committed submission every row that names a device type and
\* has a non-numeric quantity is accepted with quantity 1.
C6_BadQuantityDefaultsToOne ==
    \A r \in Slots :
        req[r].pc = "committed"
          => \A k \in 1..Len(req[r].log) :
                LET e == req[r].log[k]
                IN  (e.row.ewaste_type.t = "str" /\ e.row.ewaste_type.s # ""
                       /\ NonNumeric(e.row.quantity))
                      => (e.result = "accepted" /\ e.item.quantity = 1)

\* C7: once no submission is in flight, the user's eco_points and
\* carbon_saved are the totals of all committed batches (the user starts
\* from zero and nothing else credits the user here).
C7_NoLostUpdate ==
    (\A r \in Slots : req[r].pc \notin InFlight)
      => LET P == 1..Len(bulk_pickups)
             I == 1..Len(bulk_ewaste_items)
             points == [p \in P |-> bulk_pickups[p].estimated_eco_points]
             carbon == [k \in I |-> Get(carbon_savings, bulk_ewaste_items[k].ewaste_type, 40)
                                      * bulk_ewaste_items[k].quantity]
         IN  /\ users_row.eco_points = SumOver(P, points)
             /\ users_row.carbon_saved = SumOver(I, carbon)

\* the multipliers as the decimal numbers they are written as, in tenths
ScheduleTenths(condition) ==
    CASE condition = "Excellent" -> 15 [] condition = "Good" -> 12
      [] condition = "Fair" -> 10 [] condition = "Poor" -> 8

BulkTenths(condition) ==
    CASE condition = "WORKING" -> 12 [] condition = "DAMAGED" -> 8
      [] condition = "SCRAP" -> 5

\* C8: for a category of the path's price table and a condition of the
\* path's vocabulary the estimated price is floor(base * multiplier), the
\* multiplier taken as the exact decimal; Laptop/Excellent is 180 and
\* Desktop-PC/DAMAGED is 120.
C8_PriceIsFloorOfProduct ==
    /\ (val.path = "schedule" /\ val.ewaste_type \in DOMAIN schedule_price_map)
          => val.estimated_price
               = (schedule_price_map[val.ewaste_type] * ScheduleTenths(val.condition)) \div 10
    /\ (val.path = "bulk" /\ val.ewaste_type \in DOMAIN bulk_price_map)
          => val.estimated_price
               = (bulk_price_map[val.ewaste_type] * BulkTenths(val.condition)) \div 10
    /\ (val.path = "schedule" /\ val.ewaste_type = "Laptop" /\ val.condition = "Excellent")
          => val.estimated_price = 180
    /\ (val.path = "bulk" /\ val.ewaste_type = "Desktop-PC" /\ val.condition = "DAMAGED")
          => val.estimated_price = 120

\* C8 witness: a price whose float product lies below the decimal product
\* (70 * 1.2 is 83.99999999999999...) has been computed and is 84.
C8_Witness ==
    /\ val.path = "bulk"
    /\ val.ewaste_type = "Smartphone"
    /\ val.condition = "WORKING"
    /\ val.estimated_price = 84

\* C9: a row whose device type is a label outside the price table is never
\* skipped or failed: it is priced from the fallback base price.
C9_LookupMissNeverFails ==
    \A r \in Slots : \A k \in 1..Len(req[r].log) :
        LET e == req[r].log[k]
        IN  (e.row.ewaste_type.t = "str" /\ e.row.ewaste_type.s # ""
               /\ e.row.ewaste_type.s \notin DOMAIN bulk_price_map)
              => /\ e.result = "accepted"
                 /\ e.item.estimated_price_per_unit
                      = IntOfFloatMul(30, bulk_condition_multiplier(e.item.condition))

\* C10: every stored line item, individual or bulk, has eco points equal to
\* its estimated price integer-divided by 10, and not negative.
C10_PointsArePriceDiv10 ==
    /\ \A k \in 1..Len(ewaste) :
          /\ ewaste[k].eco_points * 10 <= ewaste[k].estimated_price
          /\ ewaste[k].estimated_price < ewaste[k].eco_points * 10 + 10
          /\ ewaste[k].eco_points >= 0
    /\ \A k \in 1..Len(bulk_ewaste_items) :
          /\ bulk_ewaste_items[k].eco_points_per_unit * 10
               <= bulk_ewaste_items[k].estimated_price_per_unit
          /\ bulk_ewaste_items[k].estimated_price_per_unit
               < bulk_ewaste_items[k].eco_points_per_unit * 10 + 10
          /\ bulk_ewaste_items[k].eco_points_per_unit >= 0

\* C10 witness: a stored individual item and a stored bulk item whose prices
\* are not multiples of 10.
C10_Witness ==
    /\ \E k \in 1..Len(ewaste) : ewaste[k].estimated_price % 10 # 0
    /\ \E k \in 1..Len(bulk_ewaste_items) :
          bulk_ewaste_items[k].estimated_price_per_unit % 10 # 0

\* C11: on every row source a condition string outside the bulk vocabulary
\* is classified by substring on its upper-cased form (WORK -> WORKING, else
\* DAMAGE -> DAMAGED, else SCRAP) and the row is accepted with it.
C11_ConditionBySubstring ==
    \A r \in Slots : \A k \in 1..Len(req[r].log) :
        LET e == req[r].log[k]
            s == upper(strip(e.row.condition.s))
        IN  (e.row.ewaste_type.t = "str" /\ e.row.ewaste_type.s # ""
               /\ e.row.condition.t = "str" /\ e.row.condition.s \notin EwasteCondition)
              => /\ e.result = "accepted"
                 /\ contains(s, WORK) => e.item.condition = WORKING
                 /\ (~contains(s, WORK) /\ contains(s, DAMAGE)) => e.item.condition = DAMAGED
                 /\ (~contains(s, WORK) /\ ~contains(s, DAMAGE)) => e.item.condition = SCRAP

MissingCategory(cell) == cell.t # "str" \/ cell.s = ""

\* C12: on every row source a row whose category is missing or empty is
\* accepted and stored with the category "Other".
C12_MissingCategoryIsOther ==
    \A r \in Slots : \A k \in 1..Len(req[r].log) :
        LET e == req[r].log[k]
        IN  MissingCategory(e.row.ewaste_type)
              => (e.result = "accepted" /\ e.item.ewaste_type = "Other")

\* C13: a committed submission whose file failed at file level has no row
\* of that file in its batch (the failure itself never fails the request:
\* it is followed by the totals and the commit).
C13_FileFailureLeavesNoFileRows ==
    \A r \in Slots :
        (req[r].file_failed /\ req[r].pc = "committed")
          => \A k \in 1..Len(req[r].log) :
                req[r].log[k].source \in {"csv", "xlsx"}
                  => req[r].log[k].result # "accepted"

\* C14: whenever a credential is configured and the service call fails
\* (it raises, or its answer has no predictions list), the endpoint works
\* from the offline heuristic's result and does not answer with an error.
C14_ServiceFailureFallsBack ==
    (resp.endpoint # "none" /\ resp.HAS_API_KEY
       /\ (resp.service.raises \/ ~resp.service.result.has_predictions))
      => /\ resp.result = generate_mock_results(resp.image)
         /\ resp.status = 200

\* the bands the average intensity is taken over
Bands(image) == IF image.mode = "RGBA" THEN SubSeq(image.pixel, 1, 3) ELSE image.pixel

\* C15: for a readable image the offline heuristic is the ordered decision
\* table over aspect ratio, average intensity, size and file name; an image
\* of aspect ratio 2.0 without a file-name hint is Laptop 0.94.
C15_HeuristicDecisionTable ==
    (resp.endpoint # "none" /\ resp.image.readable
       /\ (~resp.HAS_API_KEY \/ resp.service.raises))
      => LET i == resp.image
             p == resp.result.predictions[1]
             square == 9 * i.height < 10 * i.width /\ 10 * i.width < 11 * i.height
             dark == SeqSum(Bands(i)) < 100 * Len(Bands(i))
             wide == 2 * i.width > 3 * i.height
             tall == 10 * i.width < 7 * i.height
             large == i.width > 1000 /\ i.height > 800
             hint == i.path \cap {"laptop", "phone", "monitor", "display"}
         IN  /\ "laptop" \in hint => p = Prediction(LAPTOP_CLASS, 97)
             /\ ("laptop" \notin hint /\ "phone" \in hint)
                   => p = Prediction(SMARTPHONE_CLASS, 96)
             /\ (hint # {} /\ hint \subseteq {"monitor", "display"})
                   => p = Prediction(FLAT_PANEL_MONITOR_CLASS, 95)
             /\ (hint = {} /\ square /\ dark) => p = Prediction(COMPUTER_MOUSE_CLASS, 85)
             /\ (hint = {} /\ square /\ ~dark) => p = Prediction(BATTERY_CLASS, 88)
             /\ (hint = {} /\ ~square /\ wide) => p = Prediction(LAPTOP_CLASS, 94)
             /\ (hint = {} /\ ~square /\ ~wide /\ tall)
                   => p = Prediction(SMARTPHONE_CLASS, 91)
             /\ (hint = {} /\ ~square /\ ~wide /\ ~tall /\ large)
                   => p = Prediction(FLAT_PANEL_MONITOR_CLASS, 89)
             /\ (hint = {} /\ ~square /\ ~wide /\ ~tall /\ ~large)
                   => p = Prediction(LAPTOP_CLASS, 92)
             /\ (hint = {} /\ i.width = 2 * i.height) => p = Prediction(LAPTOP_CLASS, 94)

\* the synonym table: every variant either endpoint lists
SynonymTable == classify_class_to_type @@ api_classify_class_to_type

\* C16: both endpoints answer with the canonical category of the best
\* prediction's label, matched case-insensitively against the synonym
\* table, and with the label itself when the table does not list it.
C16_LabelNormalised ==
    (resp.endpoint # "none" /\ resp.status = 200)
      => LET class == best_of(resp.result.predictions).class
         IN  resp.ewaste_type = Get(SynonymTable, lower(class), class)

\* C17: the carbon saving is linear in the quantity: for every category,
\* listed or not, and every positive n the footprint of n devices is n
\* times the footprint of one; Refrigerator with n = 3 gives 1050.
C17_CarbonLinearInQuantity ==
    val.path = "carbon"
      => /\ val.carbon = val.quantity * val.carbon_per_unit
         /\ val.carbon_per_unit = Get(carbon_savings, val.ewaste_type, 40)
         /\ (val.ewaste_type = "Refrigerator" /\ val.quantity = 3) => val.carbon = 1050

\* C17 witness: the footprint of three refrigerators has been computed.
C17_Witness ==
    /\ val.path = "carbon"
    /\ val.quantity = 3
    /\ val.ewaste_type = "Refrigerator"
    /\ val.carbon = 1050

\* C18: the total carbon saved that a certificate of a batch states,
\* recomputed from the stored items, is the amount the submission added to
\* the user's carbon_saved (the user starts from zero and one batch is
\* submitted, so that amount is the stored counter).
C18_CertificateCarbonMatchesCredit ==
    certificate # NoCertificate
      => /\ certificate.total_carbon_saved = users_row.carbon_saved
         /\ \A r \in Slots :
               (req[r].pc = "committed" /\ req[r].id = certificate.bulk_pickup_id)
                 => certificate.total_carbon_saved = req[r].carbon_saved

\* C18 witness: a certificate has been generated for a batch of two stored
\* items, one of them of two units, and states a carbon total above zero.
C18_Witness ==
    /\ certificate # NoCertificate
    /\ certificate.total_carbon_saved > 0
    /\ Len(items_of(certificate.bulk_pickup_id)) = 2
    /\ \E k \in 1..Len(bulk_ewaste_items) : bulk_ewaste_items[k].quantity = 2

\* C20: while no bulk pickup of the user has reached VERIFIED, the user's
\* eco_points hold nothing on account of a bulk pickup: they are the points
\* of the individual pickups.
C20_PointsAfterVerification ==
    (\A p \in 1..Len(bulk_pickups) : bulk_pickups[p].status # "VERIFIED")
      => users_row.eco_points
           = SumOver(1..Len(ewaste), [k \in 1..Len(ewaste) |-> ewaste[k].eco_points])

\* what a submission was handed so far: its rows with their sources
rows_of(l) == [k \in 1..Len(l.log) |-> <<l.log[k].source, l.log[k].row>>]

\* what became of a submission: the fate of each row with the item it gave
\* (leaving out the batch the item belongs to), the running totals, how the
\* request ended
outcome_of(l) ==
    [results |-> [k \in 1..Len(l.log) |->
                    <<l.log[k].result, [l.log[k].item EXCEPT !.bulk_pickup_id = 0]>>],
     total_items |-> l.total_items,
     total_eco_points |-> l.total_eco_points,
     pc |-> l.pc]

\* the stored batch of a committed submission, leaving out its identity
batch_of(l) ==
    LET p == CHOOSE p \in 1..Len(bulk_pickups) : bulk_pickups[p].id = l.id
    IN  [total_items |-> bulk_pickups[p].total_items,
         estimated_eco_points |-> bulk_pickups[p].estimated_eco_points,
         items |-> [k \in 1..Len(items_of(l.id)) |->
                      [items_of(l.id)[k] EXCEPT !.bulk_pickup_id = 0]]]

\* C19: a second submission that was handed the rows and the file of the
\* first one again has the same accepted rows, the same total_items and the
\* same estimated_eco_points, whatever the user's counters were at either
\* submission and whatever was scheduled in between.
C19_ResubmissionSameOutcome ==
    (/\ req[1].pc \in {"committed", "failed"}
     /\ req[2].pc \in {"committed", "failed"}
     /\ rows_of(req[2]) = rows_of(req[1])
     /\ req[2].file = req[1].file)
      => /\ outcome_of(req[2]) = outcome_of(req[1])
         /\ req[2].pc = "committed" => batch_of(req[2]) = batch_of(req[1])

\* C19 witness: both submissions are stored, each with an inline row and an
\* accepted CSV row, and the user's counters differed when they began.
C19_Witness ==
    /\ req[1].pc = "committed" /\ req[2].pc = "committed"
    /\ rows_of(req[2]) = rows_of(req[1])
    /\ req[2].user # req[1].user
    /\ \E k \in 1..Len(req[2].log) :
          req[2].log[k].source = "csv" /\ req[2].log[k].result = "accepted"
    /\ \E k \in 1..Len(req[2].log) : req[2].log[k].source = "inline"
    /\ Len(bulk_pickups) = 2

\* C21: a bulk certificate is generated only for a pickup whose status is
\* COLLECTED at that moment, by whichever route generates it.
C21_CertificateOnlyWhenCollected ==
    certificate # NoCertificate => certificate.status = "COLLECTED"

\* C22: a request to admin_update_bulk_pickup changes certificate_path
\* exactly when it moves the status from another value to COLLECTED and the
\* pickup has request_certificate set, and a requested status that is not a
\* member name of BulkPickupStatus leaves the status as it was.
C22_CertificateStoredExactlyOnCollection ==
    [][\A p \in 1..Len(bulk_pickups), status \in StatusCells,
          assigned_team \in {NoLabel, Label("Team A")},
          actual_eco_points \in {NoKey, Str(<<"7">>)}, generated \in BOOLEAN :
          admin_update_bulk_pickup(p, status, assigned_team, actual_eco_points, generated)
            => LET old == bulk_pickups[p]
                   new == bulk_pickups'[p]
               IN  /\ (new.certificate_path # old.certificate_path)
                        <=> (/\ old.status # "COLLECTED"
                             /\ new.status = "COLLECTED"
                             /\ old.request_certificate)
                   /\ (status.t # "str" \/ status.s \notin BulkPickupStatus)
                        => new.status = old.status]_vars

\* C23: a step of a redeem_reward request that adds a Redemption starts
\* from an active reward with stock above zero and a user with at least
\* points_required points, adds exactly one Redemption with points_spent =
\* points_required, lowers eco_points by points_required and the stock by
\* one; any other step of a redeem_reward request leaves the user's row,
\* the reward and the redemptions as they were.
C23_RedeemAllOrNothing ==
    [][IF redemptions' # redemptions
       THEN /\ rewards_row.active
            /\ rewards_row.stock > 0
            /\ users_row.eco_points >= rewards_row.points_required
            /\ redemptions' = Append(redemptions,
                                     [points_spent |-> rewards_row.points_required,
                                      status |-> "Pending"])
            /\ users_row'.eco_points
                 = users_row.eco_points - rewards_row.points_required
            /\ rewards_row' = [rewards_row EXCEPT !.stock = @ - 1]
       ELSE redeem' # redeem
              => users_row' = users_row /\ rewards_row' = rewards_row]_vars

\* C23 witness: a redemption has gone through and a later request for the
\* same reward was refused.
C23_Witness ==
    /\ Len(redemptions) = 1
    /\ redeem[1].pc = "rejected"
    /\ rewards_row.active

\* C25: neither the stock of a reward nor the eco_points of a user is below
\* zero, also while two redeem_reward requests overlap.
C25_NeverBelowZero ==
    rewards_row.stock >= 0 /\ users_row.eco_points >= 0

\* C25 witness: two requests that both passed the checks on the last unit,
\* with points for one redemption only, have both committed.
C25_Witness ==
    /\ redeem[1].pc = "done" /\ redeem[2].pc = "done"
    /\ redeem[1].stock = 1 /\ redeem[2].stock = 1
    /\ redeem[1].eco_points = redeem[2].eco_points
    /\ redeem[1].eco_points < 2 * redeem[1].points_required
    /\ Len(redemptions) = 2

\* C24: over the life of the individual pickups, whatever the sequence of
\* the administrator's status updates, the user's carbon_saved has grown by
\* calculate_carbon_footprint(ewaste_type) once for each pickup.
C24_CarbonCreditedOnce ==
    users_row.carbon_saved
      = SumOver(1..Len(ewaste),
                [k \in 1..Len(ewaste) |->
                   calculate_carbon_footprint(ewaste[k].ewaste_type, 1)])

\* C26: no step lowers the user's eco_points or carbon_saved, and every
\* stored batch has total_items and estimated_eco_points of at least zero.
C26_CountersNeverDecrease ==
    [][/\ users_row'.eco_points >= users_row.eco_points
       /\ users_row'.carbon_saved >= users_row.carbon_saved
       /\ \A p \in 1..Len(bulk_pickups') :
             /\ bulk_pickups'[p].total_items >= 0
             /\ bulk_pickups'[p].estimated_eco_points >= 0]_vars

\* C27: the base price of a category is the same number for individual
\* scheduling, for bulk intake and for the sample-data helper.
C27_BasePriceSameEverywhere ==
    val.path = "base_price" => val.schedule = val.bulk /\ val.bulk = val.sample

\* C28: once a bulk submission has failed and been rolled back, the value
\* cached in session['eco_points'] is the user's stored eco_points.
C28_SessionMatchesStoreAfterRollback ==
    \A r \in Slots :
       req[r].pc = "failed" => session_eco_points = users_row.eco_points

====
